---------------------------- MODULE Spec2Model ----------------------------
(***************************************************************************)
(* A model of the calendar application (src/app.js, src/main.js,           *)
(* src/lib/github.js, src/unnamed/part_002): one month section of the      *)
(* CalendarApp, its overlay toggles and overlay cache, the event modal,    *)
(* the save and delete round trips through window.GitHubAPI, and the       *)
(* month file data/YYYY-MM.json held by the remote store.                  *)
(*                                                                         *)
(* Execution is single threaded and event driven: an action is one         *)
(* handler run from its start (a click, a settled request) up to its next  *)
(* await on the network, or to its end.                                    *)
(***************************************************************************)
EXTENDS Integers, Sequences, FiniteSets, Bags, TLC

(***************************************************************************)
(* Bounds of the model.                                                    *)
(***************************************************************************)
\* the clicks of the user in a session (toggles, day labels, event buttons,
\* Save, Delete, Cancel); the network answers without bound
MaxClicks == 3

(***************************************************************************)
(* Dates, month keys and events.                                           *)
(***************************************************************************)
\* the month key of the materialised section, the month after it and the
\* month before it
ThisMonth == "2024-07"
OtherMonth == "2024-08"
MonthBefore == "2024-06"

\* a date YYYY-MM-DD: its year-month part (date.slice(0, 7)) and its day
Date(ym, d) == [ym |-> ym, day |-> d]
\* the empty value of the date input
NoDate == Date("", 0)

\* new Date(y, m + 1, 0).getDate() for the section's month (July)
daysInMonth == 31

\* the toggle buttons of a month header, in document order
SourceKeys == <<"tripit", "us", "uk", "nl">>
KeySet == {SourceKeys[i] : i \in 1..Len(SourceKeys)}

\* an event object; ov is the __overlay marker
Event(id, title, date, startTime, endTime, url, ov) ==
    [id |-> id, title |-> title, date |-> date, startTime |-> startTime,
     endTime |-> endTime, url |-> url, ov |-> ov]

(***************************************************************************)
(* Overlay feeds: what window.ICS.parseICS returns for the feed of a       *)
(* source.  Each feed holds one event of this month and one of the next.   *)
(* The trip has a link, the holidays have none.                            *)
(***************************************************************************)
Parsed(summary, start, url) == [summary |-> summary, start |-> start, url |-> url]

\* a Date object, by the fields the local zone reads from it: parseDate makes
\* it with new Date(y, m, d, hh, mm, ss); an all-day event starts at 00:00
Local(date, hh, mm) == [date |-> date, hh |-> hh, mm |-> mm]
AllDay(date) == Local(date, 0, 0)

Feed(key) ==
    CASE key = "tripit" -> << Parsed("Trip", AllDay(Date(ThisMonth, 2)), "https://trip"),
                              Parsed("Trip", AllDay(Date(OtherMonth, 2)), "https://trip") >>
      [] key = "us"     -> << Parsed("Independence Day", AllDay(Date(ThisMonth, 4)), ""),
                              Parsed("Labor Day", AllDay(Date(OtherMonth, 4)), "") >>
      [] key = "uk"     -> << Parsed("Bank Holiday", AllDay(Date(OtherMonth, 26)), "") >>
      [] key = "nl"     -> << Parsed("Zomerfeest", AllDay(Date(ThisMonth, 4)), ""),
                              Parsed("", AllDay(Date(ThisMonth, 5)), "") >>

\* an event id: who made it and a serial number (uuid() is modelled per origin)
Id(origin, n) == [origin |-> origin, n |-> n]
\* the empty value of the hidden id input
NoId == Id("", 0)
\* uuid() for an overlay event: one id per source and position in its feed
OverlayId(key, i) == Id(key, i)
\* whether an id was generated for an event of an overlay feed
IsOverlayId(id) == id.origin \in KeySet

\* the days from the first of the section's month to a date of the month
\* before (June, 30 days), of the month itself or of the month after
DaysFromFirst(date) ==
    CASE date.ym = MonthBefore -> date.day - 31
      [] date.ym = ThisMonth   -> date.day - 1
      [] date.ym = OtherMonth  -> date.day - 1 + daysInMonth

\* d.getTime(), in seconds from 2024-07-01T00:00:00Z, of a Date object in a
\* zone whose wall clock is offset minutes ahead of UTC
getTime(d, offset) == ((DaysFromFirst(d.date) * 24 + d.hh) * 60 + d.mm - offset) * 60

\* monthStart(monthDate), monthEnd(monthDate): Date.UTC(y, m, 1) and
\* Date.UTC(y, m + 1, 0, 23, 59, 59), on the same scale
monthStart == 0
monthEnd == ((daysInMonth - 1) * 24 + 23) * 3600 + 59 * 60 + 59

pad(n) == IF n < 10 THEN "0" \o ToString(n) ELSE ToString(n)
formatTimeHHMM(d) == pad(d.hh) \o ":" \o pad(d.mm)

RECURSIVE FilterFrom(_, _, _, _)
FilterFrom(key, evts, offset, i) ==
    IF i > Len(evts) THEN << >>
    ELSE LET e == evts[i]
             rest == FilterFrom(key, evts, offset, i + 1)
         IN  IF getTime(e.start, offset) >= monthStart /\ getTime(e.start, offset) <= monthEnd
             THEN << Event(OverlayId(key, i),
                           IF e.summary # "" THEN e.summary ELSE "Untitled",
                           e.start.date, formatTimeHHMM(e.start), "", e.url, TRUE) >> \o rest
             ELSE rest

\* filterEventsToMonth(evts, monthDate) for the section's month, in a zone
\* whose wall clock is offset minutes ahead of UTC
filterEventsToMonth(key, evts, offset) == FilterFrom(key, evts, offset, 1)

\* the zone of the browser of the session: Europe/Amsterdam, in July
UtcOffset == 120

(***************************************************************************)
(* renderGrid: the event buttons of the grid, cell by cell.  A cell shows  *)
(* the events whose date is the cell's date, in the order of the list.     *)
(***************************************************************************)
RECURSIVE CellsFrom(_, _)
CellsFrom(evts, d) ==
    IF d > daysInMonth THEN << >>
    ELSE SelectSeq(evts, LAMBDA e : e.date = Date(ThisMonth, d)) \o CellsFrom(evts, d + 1)

renderGrid(evts) == CellsFrom(evts, 1)

(***************************************************************************)
(* State.                                                                  *)
(***************************************************************************)
VARIABLES
    GitHubAPI,      \* the helper bound to window.GitHubAPI: "lib" or "part_002"
    remote,         \* the month file in the repository: [content, sha]; sha 0: no file
    events,         \* section.__events
    sha,            \* section.dataset.sha; 0 is ''
    pressed,        \* aria-pressed of each overlay toggle of the section
    grid,           \* the event buttons shown in the section's grid
    OverlayCache,   \* OverlayCache, for this month: source key -> month events
    precache,       \* precacheOverlays: the state of each source's fetch
    modal,          \* the event modal: open, editingMonthKey and the form fields
    tasks,          \* the handler invocations waiting on the network (a bag)
    status,         \* the text last announced in #status
    lastPut,        \* how the last settled putFile call went
    clicks          \* the clicks the user has made

vars == <<GitHubAPI, remote, events, sha, pressed, grid, OverlayCache,
          precache, modal, tasks, status, lastPut, clicks>>

\* the months of the scrolling calendar (the first specification keeps them at
\* rest): a month is its distance from the current month, which orders months
\* as the keys YYYY-MM order them
VARIABLES
    loadedKeys,     \* this.loadedKeys
    monthNodes,     \* this.monthNodes: the sections, each [key, events, sha, grid]
    loading,        \* the GH.loadMonth requests in flight, by month (a bag)
    requests,       \* the GH.loadMonth requests sent so far, by month
    initial         \* renderInitial: the ensureMonth call it awaits (1, 2, 3), then 4

monthVars == <<loadedKeys, monthNodes, loading, requests, initial>>

\* a pure function under check: its argument and, once applied, its result
VARIABLES arg, result

pureVars == <<arg, result>>

\* this.settings.token, set on the settings page before the calendar is
\* opened: '' when no token is configured
VARIABLE token

Tokens == {"", "ghp_token"}

\* this.settings.owner, whether the shared settings of config/settings.json
\* have been merged, and, for every month, the owner whose repository the
\* GH.loadMonth request of the month was sent to
VARIABLES owner, merged, origin

settingsVars == <<token, owner, merged, origin>>

\* the owner of defaultSettings, the owner config/settings.json names, and
\* the mark of a month that was never requested
DefaultOwner == ""
SharedOwner == "BrianGroth"
NoOwner == "none"
Owners == {DefaultOwner, SharedOwner}

allVars == <<vars, monthVars, pureVars, settingsVars>>

\* no argument, no result
NoValue == [kind |-> "none"]
PureInit == arg = NoValue /\ result = NoValue

\* a handler invocation at an await: its kind ("toggle", "save", "delete"), the
\* request it waits for (stage) and its local variables
Task(kind, stage, key, base, s, writes, conflict, rest, combined) ==
    [kind |-> kind, stage |-> stage, key |-> key, base |-> base, sha |-> s,
     writes |-> writes, conflict |-> conflict, rest |-> rest, combined |-> combined]

Waiting == BagToSet(tasks)
Start(t) == tasks (+) SetToBag({t})
Finish(t) == tasks (-) SetToBag({t})
Continue(t, u) == (tasks (-) SetToBag({t})) (+) SetToBag({u})
\* a click of the user
Click == clicks < MaxClicks /\ clicks' = clicks + 1

Form(id, title, date, startTime, endTime, url) ==
    [id |-> id, title |-> title, date |-> date, startTime |-> startTime,
     endTime |-> endTime, url |-> url]
EmptyForm == Form(NoId, "", NoDate, "", "", "")

\* the month file as the section's loadMonth found it
InitialEvents == << Event(Id("user", 0), "Dentist", Date(ThisMonth, 4), "09:00", "10:00", "", FALSE) >>

\* the answers of window.GitHubAPI.getFile: null (status 404), an exception, or
\* the file, whose content is the text of a JSON array, of another JSON value,
\* of no JSON value, or is empty
NotFound == [kind |-> "notfound"]
Throws == [kind |-> "error"]
File(content, s) == [kind |-> "file", content |-> content, sha |-> s]
Text(kind, value) == [kind |-> kind, value |-> value]

\* JSON.parse(res.content || '[]')
JSONparse(content) ==
    CASE content.kind = "empty"  -> [ok |-> TRUE, isArray |-> TRUE, value |-> << >>]
      [] content.kind = "array"  -> [ok |-> TRUE, isArray |-> TRUE, value |-> content.value]
      [] content.kind = "object" -> [ok |-> TRUE, isArray |-> FALSE, value |-> << >>]
      [] OTHER                   -> [ok |-> FALSE, isArray |-> FALSE, value |-> << >>]

\* a loadMonth that hands out the file's sha only with an array
loadMonthShaOfArray(answer) ==
    IF answer.kind # "file" THEN [events |-> << >>, sha |-> 0]
    ELSE LET arr == JSONparse(answer.content)
         IN  IF arr.ok /\ arr.isArray THEN [events |-> arr.value, sha |-> answer.sha]
             ELSE [events |-> << >>, sha |-> 0]

\* GH.loadMonth, given the answer of getFile; sha 0 is null
loadMonth(answer) ==
    IF answer.kind # "file" THEN [events |-> << >>, sha |-> 0]
    ELSE LET arr == JSONparse(answer.content)
         IN  IF ~arr.ok THEN [events |-> << >>, sha |-> 0]
             ELSE [events |-> IF arr.isArray THEN arr.value ELSE << >>,
                   sha |-> answer.sha]

\* settings: the feed URL of each source ('' is not configured)
Url(k) == IF k = "uk" THEN "" ELSE "https://feed"

\* the section as renderMonthSection made it: the month file holds one event,
\* and GH.loadMonth has read it, or has failed (getFile threw) and the section
\* has no events and no sha
InitWith(form) ==
    /\ GitHubAPI \in {"lib", "part_002"}
    /\ remote = [content |-> InitialEvents, sha |-> 1]
    /\ \E answer \in {File(Text("array", remote.content), remote.sha), Throws} :
          /\ events = loadMonth(answer).events
          /\ sha = loadMonth(answer).sha
          /\ grid = renderGrid(loadMonth(answer).events)
    /\ pressed = [k \in KeySet |-> FALSE]
    /\ OverlayCache = << >>
    /\ precache = [k \in KeySet |-> IF Url(k) # "" THEN "pending" ELSE "done"]
    /\ modal = form
    /\ tasks = EmptyBag
    /\ status = "Calendar ready."
    /\ lastPut = [writes |-> 0, reads |-> 0, conflict |-> FALSE, ok |-> FALSE]
    /\ clicks = 0
    /\ token \in Tokens

\* the calendar as it opens: the modal is closed
Init == InitWith([open |-> FALSE, editingMonthKey |-> "", f |-> EmptyForm])

(***************************************************************************)
(* Overlays.                                                               *)
(***************************************************************************)
\* a cache that never answers
NeverCached(k) == FALSE

\* OverlayCache.has(k), for this month
Cached(k) == k \in DOMAIN OverlayCache

\* OverlayCache.set(k, monthEvents)
CacheSet(cache, k, monthEvents) ==
    [x \in (DOMAIN cache) \cup {k} |-> IF x = k THEN monthEvents ELSE cache[x]]

\* how a request for a feed is answered: with the feed, which parseICS turns
\* into an array of events ("feed"); with a text for which parseICS returns a
\* value that is no array ("shape") or throws ("garbage"); with a status that
\* is not ok ("status"); or not at all, fetch rejecting ("network")
Responses == {"feed", "shape", "garbage", "status", "network"}
\* res.ok, and window.ICS.parseICS(txt) returns
Parses(r) == r \in {"feed", "shape"}

\* what awaiting fetchICS gives: the requests sent, whether it threw, and the
\* value it returned
Fetch(n, threw, raw) == [requests |-> n, threw |-> threw, raw |-> raw]

\* fetchICS(url) of src/app.js: one request
fetchICS_app(direct) ==
    IF Parses(direct) THEN Fetch(1, FALSE, direct) ELSE Fetch(1, TRUE, "none")

\* fetchICS(url) of src/main.js, given how the direct request and the request
\* through the proxy are answered: whatever fails in the first try block leads
\* to the request through the proxy
fetchICS(direct, proxy) ==
    IF Parses(direct) THEN Fetch(1, FALSE, direct)
    ELSE IF Parses(proxy) THEN Fetch(2, FALSE, proxy)
    ELSE Fetch(2, TRUE, "none")

\* what getOverlay resolves or rejects with, the requests it caused and the
\* cache it leaves
Overlay(value, n, cache, rejected) ==
    [value |-> value, requests |-> n, cache |-> cache, rejected |-> rejected]

\* a getOverlay that let the exceptions of its try block through
FetchedUncaught(f, key, cache, offset) ==
    IF f.threw \/ f.raw # "feed" THEN Overlay(<< >>, f.requests, cache, TRUE)
    ELSE LET m == filterEventsToMonth(key, Feed(key), offset)
         IN  Overlay(m, f.requests, CacheSet(cache, key, m), FALSE)

\* a getOverlay that cached the empty result of a failed fetch
FetchedMemoisingFailure(f, key, cache, offset) ==
    IF f.threw \/ f.raw # "feed" THEN Overlay(<< >>, f.requests, CacheSet(cache, key, << >>), FALSE)
    ELSE LET m == filterEventsToMonth(key, Feed(key), offset)
         IN  Overlay(m, f.requests, CacheSet(cache, key, m), FALSE)

\* getOverlay from its await of fetchICS on, f being what the await gave: the
\* month's events are filtered from the array and cached, and an exception of
\* fetchICS or of filterEventsToMonth (raw.filter is not a function) is caught
Fetched(f, key, cache, offset) ==
    IF f.threw \/ f.raw # "feed" THEN Overlay(<< >>, f.requests, cache, FALSE)
    ELSE LET m == filterEventsToMonth(key, Feed(key), offset)
         IN  Overlay(m, f.requests, CacheSet(cache, key, m), FALSE)

\* getOverlay(key, url, monthDate), f being what fetchICS gives when awaited
getOverlay(f, key, url, cache, offset) ==
    IF url = "" THEN Overlay(<< >>, 0, cache, FALSE)
    ELSE IF key \in DOMAIN cache THEN Overlay(cache[key], 0, cache, FALSE)
    ELSE Fetched(f, key, cache, offset)

\* the answers the requests of the session get
SessionResponses == {"feed", "network"}

\* precacheOverlays: the getOverlay call for a source settles; the month's
\* events are cached when fetchICS resolved
PrecacheSettles(k) ==
    /\ precache[k] = "pending"
    /\ precache' = [precache EXCEPT ![k] = "done"]
    /\ \E direct, proxy \in SessionResponses :
          OverlayCache' = Fetched(fetchICS(direct, proxy), k, OverlayCache, UtcOffset).cache
    /\ UNCHANGED <<clicks, GitHubAPI, remote, events, sha, pressed, grid, modal,
                   tasks, status, lastPut>>

\* toggleOverlay(key, date, section, btn), up to its first wait on the network
toggleOverlay(key) ==
    /\ ~modal.open
    /\ Click
    /\ pressed' = [pressed EXCEPT ![key] = ~@]
    /\ status' = IF Url(key) = "" THEN "URL not configured." ELSE status
    /\ IF ~pressed[key] /\ Url(key) # "" /\ ~Cached(key)
       THEN /\ tasks' = Start(Task("toggle", "fetch", key, events, 0, 0, FALSE, << >>, << >>))
            /\ UNCHANGED grid
       ELSE /\ grid' = renderGrid(events \o (IF ~pressed[key] /\ Url(key) # ""
                                             THEN OverlayCache[key] ELSE << >>))
            /\ UNCHANGED tasks
    /\ UNCHANGED <<GitHubAPI, remote, events, sha, OverlayCache, precache,
                   modal, lastPut>>

\* the rest of toggleOverlay once getOverlay has resolved to overlay
ToggleRenders(t, overlay) ==
    /\ grid' = renderGrid(t.base \o overlay)
    /\ tasks' = Finish(t)
    /\ UNCHANGED modal

\* the toggles that are pressed, in document order
ActiveKeys == SelectSeq(SourceKeys, LAMBDA k : pressed[k])

\* onSaveEvent's loop over the active overlays, as far as it runs without
\* waiting: sources without a URL are passed over, the overlays found in the
\* cache are appended, and the loop stops at the first source to be fetched
RECURSIVE OverlayLoop(_, _, _)
OverlayLoop(cache, combined, rest) ==
    IF rest = << >> THEN [combined |-> combined, rest |-> rest]
    ELSE IF Url(Head(rest)) = "" THEN OverlayLoop(cache, combined, Tail(rest))
    ELSE IF Head(rest) \in DOMAIN cache
         THEN OverlayLoop(cache, combined \o cache[Head(rest)], Tail(rest))
         ELSE [combined |-> combined, rest |-> rest]

\* onSaveEvent from the overlay loop on: it waits for the next fetch, or renders
\* the grid and closes the modal
SaveRenders(t, cache, combined, rest) ==
    LET l == OverlayLoop(cache, combined, rest)
    IN  IF l.rest # << >>
        THEN /\ tasks' = Continue(t, [t EXCEPT !.stage = "fetch", !.key = Head(l.rest),
                                               !.rest = l.rest, !.combined = l.combined])
             /\ UNCHANGED <<grid, modal>>
        ELSE /\ grid' = renderGrid(l.combined)
             /\ modal' = [modal EXCEPT !.open = FALSE]
             /\ tasks' = Finish(t)

\* getOverlay settles for the handler that awaits it, the requests of fetchICS
\* being answered as given: it resolves to the month's events, which it caches,
\* when fetchICS resolved and to [] when fetchICS rejected; the handler goes on
FetchSettles(t, direct, proxy) ==
    /\ t.stage = "fetch"
    /\ LET got == Fetched(fetchICS(direct, proxy), t.key, OverlayCache, UtcOffset)
           overlay == got.value
           cache == got.cache
       IN  /\ OverlayCache' = cache
           /\ IF t.kind = "toggle"
              THEN ToggleRenders(t, overlay)
              ELSE SaveRenders(t, cache, t.combined \o overlay, Tail(t.rest))
    /\ UNCHANGED <<clicks, GitHubAPI, remote, events, sha, pressed, precache, status, lastPut>>

(***************************************************************************)
(* The event modal.                                                        *)
(***************************************************************************)
\* openEventModal(ev)
openEventModal(id, title, date, startTime, endTime, url) ==
    modal' = [open |-> TRUE, editingMonthKey |-> date.ym,
              f |-> Form(id, title, date, startTime, endTime, url)]

\* a click on the label of a day cell: openEventModal({ date: iso })
ClickDay(d) ==
    /\ ~modal.open
    /\ Click
    /\ openEventModal(NoId, "", Date(ThisMonth, d), "", "", "")
    /\ UNCHANGED <<GitHubAPI, remote, events, sha, pressed, grid,
                   OverlayCache, precache, tasks, status, lastPut>>

\* a click on the n-th event button of the grid: an overlay event with a link
\* is opened in a new window, any other event in the modal
ClickEvent(n) ==
    /\ ~modal.open
    /\ Click
    /\ n \in 1..Len(grid)
    /\ LET ev == grid[n]
       IN  IF ev.ov /\ ev.url # ""
           THEN UNCHANGED modal
           ELSE openEventModal(ev.id, ev.title, ev.date, ev.startTime, ev.endTime, ev.url)
    /\ UNCHANGED <<GitHubAPI, remote, events, sha, pressed, grid,
                   OverlayCache, precache, tasks, status, lastPut>>

\* the cancel button, or Escape: closeModal()
closeModal ==
    /\ modal.open
    /\ Click
    /\ modal' = [modal EXCEPT !.open = FALSE]
    /\ UNCHANGED <<GitHubAPI, remote, events, sha, pressed, grid,
                   OverlayCache, precache, tasks, status, lastPut>>

\* findSectionByKey(key): the one section of the model
SectionFound(key) == key = ThisMonth

\* collectBaseEvents(section)
collectBaseEvents == SelectSeq(events, LAMBDA e : ~e.ov)

(***************************************************************************)
(* Saving and deleting.                                                    *)
(***************************************************************************)
IdsOf(evts) == {evts[j].id : j \in 1..Len(evts)}

\* the ids held anywhere in the session or in the month file
UsedIds ==
    IdsOf(events) \cup IdsOf(remote.content) \cup UNION {IdsOf(t.base) : t \in Waiting}
      \cup {modal.f.id}
\* uuid(): an id no event has
uuid == Id("user", CHOOSE n \in 1..MaxClicks :
                       /\ Id("user", n) \notin UsedIds
                       /\ \A m \in 1..(n - 1) : Id("user", m) \in UsedIds)

\* base with ev in the place of the event of its id, or at the end
RECURSIVE Upsert(_, _)
Upsert(base, ev) ==
    IF base = << >> THEN << ev >>
    ELSE IF Head(base).id = ev.id THEN << ev >> \o Tail(base)
         ELSE << Head(base) >> \o Upsert(Tail(base), ev)

\* the status onSaveEvent announces when the settings are incomplete
NotConfigured == "Configure Owner/Repo and paste your GitHub token in Settings first."

\* the validation of onSaveEvent
Valid(ev) == ev.title # "" /\ ev.date # NoDate

\* the first PUT of putFile, sent by GH.saveMonth with the section's sha
PutTask(kind, base) == Task(kind, "put", "", base, sha, 1, FALSE, << >>, << >>)

\* onSaveEvent, with the form filled in as given, up to the first request of
\* putFile
onSaveEvent(title, date, startTime, endTime) ==
    /\ modal.open
    /\ Click
    /\ token = "" \/ SectionFound(modal.editingMonthKey)
    /\ LET ev == Event(IF modal.f.id # NoId THEN modal.f.id ELSE uuid, title, date,
                       startTime, endTime, modal.f.url, FALSE)
           base == Upsert(collectBaseEvents, ev)
       IN  IF token = ""
           THEN /\ status' = NotConfigured
                /\ UNCHANGED tasks
           ELSE IF ~Valid(ev)
           THEN /\ status' = "Title and date are required."
                /\ UNCHANGED tasks
           ELSE /\ tasks' = Start(PutTask("save", base))
                /\ UNCHANGED status
    /\ UNCHANGED <<GitHubAPI, remote, events, sha, pressed, grid,
                   OverlayCache, precache, modal, lastPut>>

\* onDeleteEvent, up to the first request of putFile (the Delete button is
\* shown for an event that has an id). There is no check of the settings:
\* without a token putFile throws before it sends anything, and the handler
\* goes through its catch block and closeModal()
onDeleteEvent ==
    /\ modal.open
    /\ Click
    /\ SectionFound(modal.editingMonthKey)
    /\ modal.f.id # NoId
    /\ IF token = ""
       THEN /\ status' = "Delete failed."
            /\ modal' = [modal EXCEPT !.open = FALSE]
            /\ UNCHANGED tasks
       ELSE /\ tasks' = Start(PutTask("delete", SelectSeq(collectBaseEvents, LAMBDA e : e.id # modal.f.id)))
            /\ UNCHANGED <<modal, status>>
    /\ UNCHANGED <<GitHubAPI, remote, events, sha, pressed, grid,
                   OverlayCache, precache, lastPut>>

(***************************************************************************)
(* The remote store: the contents API, for the month file.                 *)
(***************************************************************************)
\* a store that accepts a PUT without a sha although the file exists
PutOverwrites(s) ==
    {"error"}
      \cup (IF s = remote.sha \/ s = 0 THEN {"ok"} ELSE {})
      \cup (IF s # 0 /\ remote.sha # 0 /\ s # remote.sha THEN {"conflict"} ELSE {})

\* the answers the store may give to a PUT that carries sha s (0: none): the
\* request may always fail (network, status 401, 422, 5xx); it is accepted when
\* s names the current blob (or there is no file and none is named), and it is
\* a version conflict (status 409) when s names another blob than the current
PutAnswers(s) ==
    {"error"}
      \cup (IF s = remote.sha THEN {"ok"} ELSE {})
      \cup (IF s # 0 /\ remote.sha # 0 /\ s # remote.sha THEN {"conflict"} ELSE {})

\* the month file after an accepted PUT of content
Written(content) == [content |-> content, sha |-> remote.sha + 1]

\* the event another client adds to the month file
ExternalEvent == Event(Id("other", 1), "Lunch", Date(ThisMonth, 5), "12:00", "13:00", "", FALSE)

\* another client of the repository commits its event to the month file
OtherClientWrites ==
    /\ Id("other", 1) \notin IdsOf(remote.content)
    /\ remote' = Written(remote.content \o << ExternalEvent >>)
    /\ UNCHANGED <<clicks, GitHubAPI, events, sha, pressed, grid, OverlayCache, precache,
                   modal, tasks, status, lastPut>>

(***************************************************************************)
(* putFile and the handlers that await it.                                 *)
(***************************************************************************)
\* the record of a settled putFile call: the PUT requests it sent, the getFile
\* requests it sent, whether its first PUT met a version conflict, and whether
\* it resolved
PutLog(t, ok, conflict) ==
    [writes |-> t.writes, reads |-> IF t.stage = "put" THEN 0 ELSE 1,
     conflict |-> conflict, ok |-> ok]

\* a handler that took over the list it wrote but not the sha of the answer
SaveSucceedsKeepingSha(t, newSha) ==
    /\ sha' = sha
    /\ events' = t.base
    /\ lastPut' = PutLog(t, TRUE, t.conflict)
    /\ IF t.kind = "save"
       THEN /\ status' = "Saved"
            /\ SaveRenders(t, OverlayCache, t.base, ActiveKeys)
       ELSE /\ status' = "Deleted. Saved"
            /\ grid' = renderGrid(t.base)
            /\ modal' = [modal EXCEPT !.open = FALSE]
            /\ tasks' = Finish(t)

\* GH.saveMonth resolved: the handler takes over the new sha and the list it
\* wrote; onSaveEvent goes on to its overlay loop, onDeleteEvent renders
SaveSucceeds(t, newSha) ==
    /\ sha' = newSha
    /\ events' = t.base
    /\ lastPut' = PutLog(t, TRUE, t.conflict)
    /\ IF t.kind = "save"
       THEN /\ status' = "Saved"
            /\ SaveRenders(t, OverlayCache, t.base, ActiveKeys)
       ELSE /\ status' = "Deleted. Saved"
            /\ grid' = renderGrid(t.base)
            /\ modal' = [modal EXCEPT !.open = FALSE]
            /\ tasks' = Finish(t)

\* a catch block that had taken over the list it failed to write
SaveFailsKeepingBase(t, conflict) ==
    /\ status' = IF t.kind = "save" THEN "Save failed." ELSE "Delete failed."
    /\ lastPut' = PutLog(t, FALSE, conflict)
    /\ modal' = [modal EXCEPT !.open = FALSE]
    /\ tasks' = Finish(t)
    /\ events' = t.base
    /\ UNCHANGED <<sha, grid>>

\* GH.saveMonth rejected: the catch block of the handler, then closeModal()
SaveFails(t, conflict) ==
    /\ status' = IF t.kind = "save" THEN "Save failed." ELSE "Delete failed."
    /\ lastPut' = PutLog(t, FALSE, conflict)
    /\ modal' = [modal EXCEPT !.open = FALSE]
    /\ tasks' = Finish(t)
    /\ UNCHANGED <<events, sha, grid>>

\* putFile of src/lib/github.js after its first PUT was answered
putFile_lib(t, answer) ==
    CASE answer = "ok" -> SaveSucceeds(t, remote'.sha)
      [] answer = "conflict" ->
            /\ tasks' = Continue(t, [t EXCEPT !.stage = "get", !.conflict = TRUE])
            /\ UNCHANGED <<events, sha, grid, modal, status, lastPut>>
      [] OTHER -> SaveFails(t, FALSE)

\* putFile of src/unnamed/part_002 after its PUT was answered
putFile_part_002(t, answer) ==
    IF answer = "ok" THEN SaveSucceeds(t, remote'.sha)
    ELSE SaveFails(t, answer = "conflict")

\* the store answers the first PUT of a putFile call
PutSettles(t) ==
    /\ t.stage = "put"
    /\ \E answer \in PutAnswers(t.sha) :
          /\ remote' = IF answer = "ok" THEN Written(t.base) ELSE remote
          /\ IF GitHubAPI = "lib" THEN putFile_lib(t, answer)
                                  ELSE putFile_part_002(t, answer)
    /\ UNCHANGED <<clicks, GitHubAPI, pressed, OverlayCache, precache>>

\* putFile of src/lib/github.js: getFile is answered and the PUT is retried
\* with the sha found; when getFile throws, putFile rejects
GetSettles(t) ==
    /\ t.stage = "get"
    /\ \E ok \in BOOLEAN :
          IF ok
          THEN /\ tasks' = Continue(t, [t EXCEPT !.stage = "retry", !.writes = 2,
                                                 !.sha = IF remote.sha # 0 THEN remote.sha ELSE @])
               /\ UNCHANGED <<events, sha, grid, modal, status, lastPut>>
          ELSE SaveFails(t, TRUE)
    /\ UNCHANGED <<clicks, GitHubAPI, remote, pressed, OverlayCache, precache>>

\* putFile of src/lib/github.js: the store answers the retried PUT
RetrySettles(t) ==
    /\ t.stage = "retry"
    /\ \E answer \in PutAnswers(t.sha) :
          /\ remote' = IF answer = "ok" THEN Written(t.base) ELSE remote
          /\ IF answer = "ok" THEN SaveSucceeds(t, remote'.sha)
                              ELSE SaveFails(t, TRUE)
    /\ UNCHANGED <<clicks, GitHubAPI, pressed, OverlayCache, precache>>

(***************************************************************************)
(* The months of the calendar: renderInitial, the sentinels, ensureMonth   *)
(* and GH.loadMonth.                                                       *)
(***************************************************************************)
\* this.maxFuture = addMonths(this.current, 24), as a distance in months
maxFuture == 24
\* how far back the user scrolls
MaxPast == 3

Months == (0 - MaxPast - 1)..(maxFuture + 1)

\* what getFile may answer for the file of month k: the repository holds a
\* file for the current month only
FileAnswers(k) ==
    IF k = 0
    THEN {File(Text("array", InitialEvents), 1), File(Text("object", << >>), 1),
          File(Text("invalid", << >>), 1), File(Text("empty", << >>), 1), Throws}
    ELSE {NotFound, Throws}

\* the section renderMonthSection returns
Section(key, loaded) ==
    [key |-> key, events |-> loaded.events, sha |-> loaded.sha,
     grid |-> renderGrid(loaded.events)]

\* the part of the state ensureMonth works on
MonthState == [loadedKeys |-> loadedKeys, loading |-> loading, requests |-> requests]

\* an ensureMonth that looked for a rendered section instead of a loaded key
ensureMonthByNode(m, k) ==
    IF \E i \in 1..Len(monthNodes) : monthNodes[i].key = k THEN m
    ELSE [loadedKeys |-> m.loadedKeys \cup {k},
          loading |-> m.loading (+) SetToBag({k}),
          requests |-> [m.requests EXCEPT ![k] = @ + 1]]

\* ensureMonth(d) up to its await: nothing for a key in loadedKeys; otherwise
\* the key is added and renderMonthSection sends the GH.loadMonth request
ensureMonth(m, k) ==
    IF k \in m.loadedKeys THEN m
    ELSE [loadedKeys |-> m.loadedKeys \cup {k},
          loading |-> m.loading (+) SetToBag({k}),
          requests |-> [m.requests EXCEPT ![k] = @ + 1]]

\* the months renderInitial ensures, one after the other: the current month,
\* the month before, the month after
InitialTargets == <<0, -1, 1>>

\* the value of initial once renderInitial has returned
Returned == Len(InitialTargets) + 1

\* renderInitial from its i-th ensureMonth call on, up to the next call that
\* waits for a section; the month after is ensured only up to maxFuture
RECURSIVE renderInitial(_, _)
renderInitial(m, i) ==
    IF i > Len(InitialTargets) \/ (i = 3 /\ InitialTargets[i] > maxFuture)
    THEN [m |-> m, initial |-> Returned]
    ELSE LET after == ensureMonth(m, InitialTargets[i])
         IN  IF after = m THEN renderInitial(m, i + 1)
             ELSE [m |-> after, initial |-> i]

\* an ensureMonth that put every section at the end
InsertSectionAtEnd(nodes, section) == Append(nodes, section)

\* ensureMonth after its await: the section goes before the first section of
\* a later month, or to the end
InsertSection(nodes, section) ==
    LET later == {i \in 1..Len(nodes) : nodes[i].key > section.key}
    IN  IF later = {} THEN Append(nodes, section)
        ELSE LET j == CHOOSE i \in later : \A l \in later : i <= l
             IN  SubSeq(nodes, 1, j - 1) \o << section >> \o SubSeq(nodes, j, Len(nodes))

\* the state of the months part after m
SetMonthState(m) ==
    /\ loadedKeys' = m.loadedKeys
    /\ loading' = m.loading
    /\ requests' = m.requests

\* the constructor with the owner loadLocalSettings() returned:
\* observeSentinels(), then renderInitial() up to its first wait
MonthsInitOf(localOwner) ==
    LET r == renderInitial([loadedKeys |-> {}, loading |-> EmptyBag,
                            requests |-> [k \in Months |-> 0]], 1)
    IN  /\ monthNodes = << >>
        /\ loadedKeys = r.m.loadedKeys
        /\ loading = r.m.loading
        /\ requests = r.m.requests
        /\ initial = r.initial
        /\ owner = localOwner
        /\ merged = FALSE
        /\ origin = [k \in Months |-> IF k \in r.m.loadedKeys THEN localOwner ELSE NoOwner]

\* the constructor when nothing was saved on the settings page
MonthsInit == MonthsInitOf(DefaultOwner)

\* the callback of ioTop: the month before the first section
TopSentinel ==
    LET firstKey == IF monthNodes # << >> THEN monthNodes[1].key ELSE 0
    IN  /\ firstKey - 1 >= 0 - MaxPast
        /\ SetMonthState(ensureMonth(MonthState, firstKey - 1))
        /\ UNCHANGED <<monthNodes, initial>>

\* a callback of ioBottom without the test base > this.maxFuture
BottomSentinelUnbounded ==
    LET lastKey == IF monthNodes # << >> THEN monthNodes[Len(monthNodes)].key ELSE 0
    IN  /\ SetMonthState(ensureMonth(MonthState, lastKey + 1))
        /\ UNCHANGED <<monthNodes, initial>>

\* the callback of ioBottom: the month after the last section, up to maxFuture
BottomSentinel ==
    LET lastKey == IF monthNodes # << >> THEN monthNodes[Len(monthNodes)].key ELSE 0
    IN  /\ SetMonthState(IF lastKey + 1 > maxFuture THEN MonthState
                         ELSE ensureMonth(MonthState, lastKey + 1))
        /\ UNCHANGED <<monthNodes, initial>>

\* getFile answers the GH.loadMonth request for month k: renderMonthSection
\* returns the section, ensureMonth inserts it, and renderInitial, when it
\* waited for this call, goes on
LoadSettles(k, answer) ==
    /\ k \in BagToSet(loading)
    /\ monthNodes' = InsertSection(monthNodes, Section(k, loadMonth(answer)))
    /\ LET m == [MonthState EXCEPT !.loading = @ (-) SetToBag({k})]
       IN  IF initial \in 1..Len(InitialTargets) /\ InitialTargets[initial] = k
           THEN LET r == renderInitial(m, initial + 1)
                IN  SetMonthState(r.m) /\ initial' = r.initial
           ELSE SetMonthState(m) /\ UNCHANGED initial

(***************************************************************************)
(* The specifications.                                                     *)
(***************************************************************************)
\* the days whose label is clicked
ClickDays == {5}
\* what the user leaves in the form when Save is clicked: the title as it was
\* (typed, for a new event) or cleared; the date as it was, cleared or moved
\* to the next month; the times as they were or with the end before the start
TitleInputs == {IF modal.f.title # "" THEN modal.f.title ELSE "Meeting", ""}
DateInputs == {modal.f.date, NoDate, Date(OtherMonth, 1)}
TimeInputs == {<<modal.f.startTime, modal.f.endTime>>, <<"10:00", "09:00">>}

\* the months and the pure functions are at rest
Elsewhere == UNCHANGED <<monthVars, pureVars, settingsVars>>

Next ==
    \/ \E k \in KeySet : PrecacheSettles(k) /\ Elsewhere
    \/ \E k \in KeySet : toggleOverlay(k) /\ Elsewhere
    \/ \E t \in Waiting : \E direct, proxy \in SessionResponses :
          FetchSettles(t, direct, proxy) /\ Elsewhere
    \/ \E d \in ClickDays : ClickDay(d) /\ Elsewhere
    \/ \E n \in 1..Len(grid) : ClickEvent(n) /\ Elsewhere
    \/ closeModal /\ Elsewhere
    \/ \E title \in TitleInputs, date \in DateInputs, times \in TimeInputs :
          onSaveEvent(title, date, times[1], times[2]) /\ Elsewhere
    \/ onDeleteEvent /\ Elsewhere
    \/ OtherClientWrites /\ Elsewhere
    \/ \E t \in Waiting : PutSettles(t) /\ Elsewhere
    \/ \E t \in Waiting : GetSettles(t) /\ Elsewhere
    \/ \E t \in Waiting : RetrySettles(t) /\ Elsewhere

\* the first specification: one month section and its user
InitSection == Init /\ MonthsInit /\ PureInit

Spec == InitSection /\ [][Next]_allVars

\* the section once the user has clicked the label of a day, the modal being
\* open on the empty form of that day, the file loaded and a token configured;
\* clicks counts the clicks from here on
InitSaves ==
    /\ \E d \in ClickDays :
          InitWith([open |-> TRUE, editingMonthKey |-> ThisMonth,
                    f |-> Form(NoId, "", Date(ThisMonth, d), "", "", "")])
    /\ token # "" /\ sha # 0
    /\ MonthsInit /\ PureInit

\* the user opens, fills in and closes the modal, saves and deletes; no
\* overlay is toggled and the feeds are not answered
NextSaves ==
    \/ \E d \in ClickDays : ClickDay(d) /\ Elsewhere
    \/ \E n \in 1..Len(grid) : ClickEvent(n) /\ Elsewhere
    \/ closeModal /\ Elsewhere
    \/ \E title \in TitleInputs, date \in DateInputs, times \in TimeInputs :
          onSaveEvent(title, date, times[1], times[2]) /\ Elsewhere
    \/ onDeleteEvent /\ Elsewhere
    \/ OtherClientWrites /\ Elsewhere
    \/ \E t \in Waiting : PutSettles(t) /\ Elsewhere
    \/ \E t \in Waiting : GetSettles(t) /\ Elsewhere
    \/ \E t \in Waiting : RetrySettles(t) /\ Elsewhere

SpecSaves == InitSaves /\ [][NextSaves]_allVars

\* the months of the calendar, the section of the first specification at rest
NextMonths ==
    \/ TopSentinel /\ UNCHANGED <<vars, pureVars, settingsVars>>
    \/ BottomSentinel /\ UNCHANGED <<vars, pureVars, settingsVars>>
    \/ \E k \in Months : \E answer \in FileAnswers(k) :
          LoadSettles(k, answer) /\ UNCHANGED <<vars, pureVars, settingsVars>>

\* the section at rest
SectionInit == Init /\ GitHubAPI = "part_002" /\ token # "" /\ sha # 0

InitMonths == SectionInit /\ MonthsInit /\ PureInit

SpecMonths == InitMonths /\ [][NextMonths]_allVars

\* what getFile answers for month k in the repository of owner o: only the
\* repository config/settings.json names holds the files of the calendar
RepoAnswers(o, k) == IF o = SharedOwner THEN FileAnswers(k) ELSE {NotFound, Throws}

\* renderMonthSection reads this.settings when it calls GH.loadMonth: the
\* months requested in this step are asked of the owner now in the settings
Addressed ==
    origin' = [k \in Months |-> IF k \in loadedKeys' \ loadedKeys THEN owner
                                ELSE origin[k]]

\* the callback of loadSharedSettings(): owner and repo of the file replace
\* those of the settings and the grid of every section is rendered again from
\* the events the section holds
SharedArrives ==
    /\ ~merged
    /\ owner' = SharedOwner
    /\ merged' = TRUE
    /\ monthNodes' = [i \in 1..Len(monthNodes) |->
                        [monthNodes[i] EXCEPT !.grid = renderGrid(monthNodes[i].events)]]
    /\ UNCHANGED <<loadedKeys, loading, requests, initial, origin, token>>

\* the months of the calendar while config/settings.json is fetched
NextShared ==
    \/ TopSentinel /\ Addressed /\ UNCHANGED <<vars, pureVars, token, owner, merged>>
    \/ BottomSentinel /\ Addressed /\ UNCHANGED <<vars, pureVars, token, owner, merged>>
    \/ \E k \in Months : \E answer \in RepoAnswers(origin[k], k) :
          LoadSettles(k, answer) /\ Addressed /\ UNCHANGED <<vars, pureVars, token, owner, merged>>
    \/ SharedArrives /\ UNCHANGED <<vars, pureVars>>

InitShared == SectionInit /\ (\E o \in Owners : MonthsInitOf(o)) /\ PureInit

SpecShared == InitShared /\ [][NextShared]_allVars

\* filterEventsToMonth applied to a feed of one event, in every zone: the
\* offsets of the zones in use, in minutes, and starts around the ends of
\* the section's month
Offsets == {h * 60 : h \in -12..14}
Starts ==
    {Local(Date(MonthBefore, 30), 23, 59), Local(Date(ThisMonth, 1), 0, 0),
     Local(Date(ThisMonth, 1), 12, 0), Local(Date(ThisMonth, 16), 9, 30),
     Local(Date(ThisMonth, 31), 12, 0), Local(Date(ThisMonth, 31), 23, 59),
     Local(Date(OtherMonth, 1), 0, 0)}

Events(value) == [kind |-> "events", value |-> value]

InitFilter ==
    /\ SectionInit /\ MonthsInit
    /\ arg \in [offset : Offsets, start : Starts]
    /\ result = NoValue

\* the call filterEventsToMonth(raw, monthDate) of getOverlay
ApplyFilter ==
    /\ result = NoValue
    /\ result' = Events(filterEventsToMonth("us", << Parsed("Event", arg.start, "") >>,
                                            arg.offset))
    /\ UNCHANGED <<arg, vars, monthVars, settingsVars>>

NextFilter ==
    \/ ApplyFilter

SpecFilter == InitFilter /\ [][NextFilter]_allVars

\* getOverlay called by toggleOverlay for the source us, with either fetchICS,
\* with and without a URL, with and without a cached entry, and with every
\* answer to the direct request and to the request through the proxy
Apps == {"app.js", "main.js"}
CachedBefore(cached) ==
    IF cached THEN CacheSet(<< >>, "us", filterEventsToMonth("us", Feed("us"), UtcOffset))
    ELSE << >>

InitOverlay ==
    /\ SectionInit /\ MonthsInit
    /\ arg \in [app : Apps, url : {"", "https://feed"}, cached : BOOLEAN,
                 direct : Responses, proxy : Responses]
    /\ result = NoValue

\* const overlay = await getOverlay(key, url, date), then
\* renderGrid(date, grid, base.concat(overlay)); when getOverlay rejects, the
\* handler ends there and the grid stays as renderMonthSection rendered it
CallGetOverlay ==
    /\ result = NoValue
    /\ LET f == IF arg.app = "app.js" THEN fetchICS_app(arg.direct)
                ELSE fetchICS(arg.direct, arg.proxy)
           got == getOverlay(f, "us", arg.url, CachedBefore(arg.cached), UtcOffset)
       IN  result' = [kind |-> "overlay", got |-> got,
                      grid |-> IF got.rejected THEN renderGrid(InitialEvents)
                               ELSE renderGrid(InitialEvents \o got.value)]
    /\ UNCHANGED <<arg, vars, monthVars, settingsVars>>

NextOverlay ==
    \/ CallGetOverlay

SpecOverlay == InitOverlay /\ [][NextOverlay]_allVars

\* two getOverlay calls for the source us and the same month, the second with
\* the URL the settings hold by then: precacheOverlays and toggleOverlay read
\* the URL from this.settings at each call, and the callback of
\* loadSharedSettings() or the settings page may have replaced it in between
NoUrl == ""
Urls == {NoUrl, "https://old", "https://new"}

\* the URL whose feed the value of a getOverlay call was filtered from: that
\* of the cached entry when there was one, the URL of the call when the feed
\* was fetched, none when the call resolved to [] without a feed
FeedOf(before, from, got, url) ==
    IF url = NoUrl THEN NoUrl
    ELSE IF "us" \in DOMAIN before THEN from
    ELSE IF "us" \in DOMAIN got.cache THEN url
    ELSE NoUrl

InitCalls ==
    /\ SectionInit /\ MonthsInit
    /\ arg \in [first : Urls, second : Urls,
                 direct : [1..2 -> SessionResponses], proxy : [1..2 -> SessionResponses]]
    /\ result = NoValue

\* the first call, on an empty cache
FirstCall ==
    /\ result = NoValue
    /\ LET got == getOverlay(fetchICS(arg.direct[1], arg.proxy[1]), "us", arg.first,
                             << >>, UtcOffset)
       IN  result' = [kind |-> "first", got |-> got,
                      from |-> FeedOf(<< >>, NoUrl, got, arg.first),
                      before |-> << >>, cache |-> got.cache,
                      cached |-> FeedOf(<< >>, NoUrl, got, arg.first)]
    /\ UNCHANGED <<arg, vars, monthVars, settingsVars>>

\* the second call, on the cache the first call left
SecondCall ==
    /\ result.kind = "first"
    /\ LET got == getOverlay(fetchICS(arg.direct[2], arg.proxy[2]), "us", arg.second,
                             result.cache, UtcOffset)
       IN  result' = [kind |-> "second", got |-> got,
                      from |-> FeedOf(result.cache, result.cached, got, arg.second),
                      before |-> result.cache, cache |-> got.cache,
                      cached |-> result.cached]
    /\ UNCHANGED <<arg, vars, monthVars, settingsVars>>

NextCalls ==
    \/ FirstCall
    \/ SecondCall

SpecCalls == InitCalls /\ [][NextCalls]_allVars

(***************************************************************************)
(* The computed holiday calendar of the Netherlands.                       *)
(***************************************************************************)
MinYear == 1900
MaxYear == 2400
Years == MinYear..MaxYear

\* new Date(year, month - 1, day), the month counted from 1 here
JSDate(year, month, day) == [year |-> year, month |-> month, day |-> day]

\* a getEasterDate without the correction m
getEasterDateUncorrected(year) ==
    LET a == year % 19
        b == year \div 100
        c == year % 100
        d == b \div 4
        e == b % 4
        f == (b + 8) \div 25
        g == (b - f + 1) \div 3
        h == (19 * a + b - d - g + 15) % 30
        i == c \div 4
        k == c % 4
        l == (32 + 2 * e + 2 * i - h - k) % 7
        month == (h + l + 114) \div 31
        day == ((h + l + 114) % 31) + 1
    IN  JSDate(year, month, day)

getEasterDate(year) ==
    LET a == year % 19
        b == year \div 100
        c == year % 100
        d == b \div 4
        e == b % 4
        f == (b + 8) \div 25
        g == (b - f + 1) \div 3
        h == (19 * a + b - d - g + 15) % 30
        i == c \div 4
        k == c % 4
        l == (32 + 2 * e + 2 * i - h - k) % 7
        m == (a + 11 * h + 22 * l) \div 451
        month == (h + l - 7 * m + 114) \div 31
        day == ((h + l - 7 * m + 114) % 31) + 1
    IN  JSDate(year, month, day)

\* the days from March 1 of the year 0 to the date (proleptic Gregorian)
DayNumber(year, month, day) ==
    LET y == IF month <= 2 THEN year - 1 ELSE year
        mp == IF month > 2 THEN month - 3 ELSE month + 9
        era == y \div 400
        yoe == y - era * 400
        doy == (153 * mp + 2) \div 5 + day - 1
    IN  era * 146097 + yoe * 365 + yoe \div 4 - yoe \div 100 + doy

\* Date.prototype.getDay: 0 is Sunday; March 1 of the year 0 is a Wednesday
getDay(year, month, day) == (DayNumber(year, month, day) + 3) % 7

isLeap(y) == (y % 4 = 0 /\ y % 100 # 0) \/ y % 400 = 0
DaysIn(y, month) ==
    IF month = 2 THEN (IF isLeap(y) THEN 29 ELSE 28)
    ELSE IF month \in {4, 6, 9, 11} THEN 30 ELSE 31

\* date.setDate(n): the day of the month is set to n, and a day outside the
\* month carries into the months before or after
RECURSIVE setDate(_, _)
setDate(date, n) ==
    IF n < 1
    THEN IF date.month = 1
         THEN setDate(JSDate(date.year - 1, 12, 1), n + 31)
         ELSE setDate(JSDate(date.year, date.month - 1, 1), n + DaysIn(date.year, date.month - 1))
    ELSE IF n > DaysIn(date.year, date.month)
    THEN IF date.month = 12
         THEN setDate(JSDate(date.year + 1, 1, 1), n - 31)
         ELSE setDate(JSDate(date.year, date.month + 1, 1), n - DaysIn(date.year, date.month))
    ELSE JSDate(date.year, date.month, n)

\* the key `${month}-${day}`
MonthDay(month, day) == ToString(month) \o "-" \o ToString(day)
KeyOf(date) == MonthDay(date.month, date.day)

\* holidays[key] = name
Assign(holidays, key, name) ==
    [k \in DOMAIN holidays \cup {key} |-> IF k = key THEN name ELSE holidays[k]]

RECURSIVE AssignAll(_, _)
AssignAll(holidays, entries) ==
    IF entries = << >> THEN holidays
    ELSE AssignAll(Assign(holidays, Head(entries)[1], Head(entries)[2]), Tail(entries))

getNLHolidays(year) ==
    LET easter == getEasterDate(year)
        goodFriday == setDate(easter, easter.day - 2)
        easterMonday == setDate(easter, easter.day + 1)
        ascension == setDate(easter, easter.day + 39)
        whitMonday == setDate(easter, easter.day + 50)
    IN  AssignAll(<< >>,
          << <<MonthDay(1, 1), "Nieuwjaarsdag">>,
             <<KeyOf(goodFriday), "Goede Vrijdag">>,
             <<KeyOf(easterMonday), "Tweede Paasdag">>,
             <<KeyOf(ascension), "Hemelvaart">>,
             <<KeyOf(whitMonday), "Tweede Pinksterdag">>,
             <<MonthDay(4, 27), "Koningsdag">>,
             <<MonthDay(5, 5), "Bevrijdingsdag">>,
             <<MonthDay(12, 25), "Eerste Kerstdag">>,
             <<MonthDay(12, 26), "Tweede Kerstdag">> >>)

\* a getNthWeekdayOfMonth that counts from the weekday to the first of the month
getNthWeekdayOfMonthSwapped(year, monthIndex, weekday, n) ==
    IF n > 0
    THEN LET firstWeekday == getDay(year, monthIndex + 1, 1)
             offset == (firstWeekday - weekday + 7) % 7
         IN  1 + offset + 7 * (n - 1)
    ELSE LET lastDay == DaysIn(year, monthIndex + 1)
             lastWeekday == getDay(year, monthIndex + 1, lastDay)
             offset == (weekday - lastWeekday + 7) % 7
         IN  lastDay - offset

\* monthIndex counts from 0; new Date(year, monthIndex + 1, 0) is the last day
\* of the month
getNthWeekdayOfMonth(year, monthIndex, weekday, n) ==
    IF n > 0
    THEN LET firstWeekday == getDay(year, monthIndex + 1, 1)
             offset == (weekday - firstWeekday + 7) % 7
         IN  1 + offset + 7 * (n - 1)
    ELSE LET lastDay == DaysIn(year, monthIndex + 1)
             lastWeekday == getDay(year, monthIndex + 1, lastDay)
             offset == (lastWeekday - weekday + 7) % 7
         IN  lastDay - offset

\* a getUSHolidays with Memorial Day on the fourth Monday of May
getUSHolidaysFourthMonday(year) ==
    AssignAll(<< >>,
      << <<MonthDay(1, 1), "New Year's Day">>,
         <<MonthDay(1, getNthWeekdayOfMonth(year, 0, 1, 3)), "Martin Luther King Jr. Day">>,
         <<MonthDay(2, getNthWeekdayOfMonth(year, 1, 1, 3)), "Presidents' Day">>,
         <<MonthDay(5, getNthWeekdayOfMonth(year, 4, 1, 4)), "Memorial Day">>,
         <<MonthDay(6, 19), "Juneteenth">>,
         <<MonthDay(7, 4), "Independence Day">>,
         <<MonthDay(9, getNthWeekdayOfMonth(year, 8, 1, 1)), "Labor Day">>,
         <<MonthDay(10, getNthWeekdayOfMonth(year, 9, 1, 2)), "Columbus Day">>,
         <<MonthDay(11, 11), "Veterans Day">>,
         <<MonthDay(11, getNthWeekdayOfMonth(year, 10, 4, 4)), "Thanksgiving">>,
         <<MonthDay(12, 25), "Christmas Day">> >>)

\* the names are written with the apostrophe '
getUSHolidays(year) ==
    AssignAll(<< >>,
      << <<MonthDay(1, 1), "New Year's Day">>,
         <<MonthDay(1, getNthWeekdayOfMonth(year, 0, 1, 3)), "Martin Luther King Jr. Day">>,
         <<MonthDay(2, getNthWeekdayOfMonth(year, 1, 1, 3)), "Presidents' Day">>,
         <<MonthDay(5, getNthWeekdayOfMonth(year, 4, 1, -1)), "Memorial Day">>,
         <<MonthDay(6, 19), "Juneteenth">>,
         <<MonthDay(7, 4), "Independence Day">>,
         <<MonthDay(9, getNthWeekdayOfMonth(year, 8, 1, 1)), "Labor Day">>,
         <<MonthDay(10, getNthWeekdayOfMonth(year, 9, 1, 2)), "Columbus Day">>,
         <<MonthDay(11, 11), "Veterans Day">>,
         <<MonthDay(11, getNthWeekdayOfMonth(year, 10, 4, 4)), "Thanksgiving">>,
         <<MonthDay(12, 25), "Christmas Day">> >>)

\* the holiday functions applied to every year
InitHolidays ==
    /\ SectionInit /\ MonthsInit
    /\ arg \in [year : Years]
    /\ result = NoValue

ApplyHolidays ==
    /\ result = NoValue
    /\ result' = [kind |-> "holidays", easter |-> getEasterDate(arg.year),
                  holidays |-> getNLHolidays(arg.year),
                  us |-> getUSHolidays(arg.year)]
    /\ UNCHANGED <<arg, vars, monthVars, settingsVars>>

NextHolidays ==
    \/ ApplyHolidays

SpecHolidays == InitHolidays /\ [][NextHolidays]_allVars

\* getNthWeekdayOfMonth applied to every month and weekday of a century that
\* begins with a leap year and ends with a year that is none, for the n in
\* use and for 0
MinWeekdayYear == 2000
MaxWeekdayYear == 2100
Occurrences == {-1, 0, 1, 2, 3, 4}

InitWeekday ==
    /\ SectionInit /\ MonthsInit
    /\ arg \in [year : MinWeekdayYear..MaxWeekdayYear, monthIndex : 0..11,
                 weekday : 0..6, n : Occurrences]
    /\ result = NoValue

ApplyWeekday ==
    /\ result = NoValue
    /\ result' = [kind |-> "weekday",
                  day |-> getNthWeekdayOfMonth(arg.year, arg.monthIndex, arg.weekday, arg.n)]
    /\ UNCHANGED <<arg, vars, monthVars, settingsVars>>

NextWeekday ==
    \/ ApplyWeekday

SpecWeekday == InitWeekday /\ [][NextWeekday]_allVars

\* holidayName null: no name is empty
null == ""

\* an inner loop body of generateMonths in which the name of the Netherlands
\* replaces the name there is
holidayNameOverwritten(showUSHolidays, showNLHolidays, usHolidays, nlHolidays, key) ==
    IF showNLHolidays /\ key \in DOMAIN nlHolidays THEN nlHolidays[key]
    ELSE IF showUSHolidays /\ key \in DOMAIN usHolidays THEN usHolidays[key]
    ELSE null

\* the body of the inner loop of generateMonths: the holiday name of a day
holidayName(showUSHolidays, showNLHolidays, usHolidays, nlHolidays, key) ==
    LET us == IF showUSHolidays /\ key \in DOMAIN usHolidays THEN usHolidays[key] ELSE null
    IN  IF showNLHolidays /\ key \in DOMAIN nlHolidays
        THEN IF us # null THEN us \o " / " \o nlHolidays[key] ELSE nlHolidays[key]
        ELSE us

generateMonths(startYear, startMonth, count, showUSHolidays, showNLHolidays) ==
    [i \in 1..count |->
        LET year == startYear + (startMonth + i - 1) \div 12
            monthIndex == (startMonth + i - 1) % 12
            totalDays == DaysIn(year, monthIndex + 1)
            usHolidays == IF showUSHolidays THEN getUSHolidays(year) ELSE << >>
            nlHolidays == IF showNLHolidays THEN getNLHolidays(year) ELSE << >>
        IN  [year |-> year, monthIndex |-> monthIndex,
             days |-> [d \in 1..totalDays |->
                          [date |-> JSDate(year, monthIndex + 1, d),
                           holidayName |-> holidayName(showUSHolidays, showNLHolidays,
                                                       usHolidays, nlHolidays,
                                                       MonthDay(monthIndex + 1, d))]]]]

\* render() generates 24 months from the month it starts at
MonthCount == 24
MinStartYear == 2015
MaxStartYear == 2024

InitGenerate ==
    /\ SectionInit /\ MonthsInit
    /\ arg \in [startYear : MinStartYear..MaxStartYear, startMonth : 0..11,
                 showUSHolidays : BOOLEAN, showNLHolidays : BOOLEAN]
    /\ result = NoValue

ApplyGenerate ==
    /\ result = NoValue
    /\ result' = [kind |-> "months",
                  months |-> generateMonths(arg.startYear, arg.startMonth, MonthCount,
                                            arg.showUSHolidays, arg.showNLHolidays)]
    /\ UNCHANGED <<arg, vars, monthVars, settingsVars>>

NextGenerate ==
    \/ ApplyGenerate

SpecGenerate == InitGenerate /\ [][NextGenerate]_allVars

\* the remainder of JavaScript, which has the sign of the dividend
jsRem(a, n) == IF a >= 0 THEN a % n ELSE 0 - ((0 - a) % n)
\* Math.ceil(a / n) for a >= 0
ceilDiv(a, n) == (a + n - 1) \div n
abs(a) == IF a >= 0 THEN a ELSE 0 - a

\* the page after render(): the months generated from the start, and the
\* button that led to it
Rendered(start, click) ==
    [kind |-> "months", click |-> click,
     months |-> generateMonths(start.startYear, start.startMonth, MonthCount,
                               start.showUSHolidays, start.showNLHolidays)]

\* the click handler of Next
nextStart ==
    LET newMonth == arg.startMonth + 2
    IN  [arg EXCEPT !.startYear = @ + newMonth \div 12, !.startMonth = newMonth % 12]

\* a click handler of Previous that stayed in the year
prevStartSameYear ==
    LET newMonth == arg.startMonth - 2
    IN  [arg EXCEPT !.startMonth = IF newMonth < 0 THEN jsRem(jsRem(newMonth, 12) + 12, 12)
                                   ELSE newMonth]

\* the click handler of Previous
prevStart ==
    LET newMonth == arg.startMonth - 2
    IN  IF newMonth < 0
        THEN [arg EXCEPT !.startYear = @ - ceilDiv(abs(newMonth), 12),
                         !.startMonth = jsRem(jsRem(newMonth, 12) + 12, 12)]
        ELSE [arg EXCEPT !.startMonth = newMonth]

\* the holiday calendar as it opens: startYear and startMonth are those of
\* today, and render() has run
InitPaging ==
    /\ SectionInit /\ MonthsInit
    /\ arg \in [startYear : MinStartYear..MaxStartYear, startMonth : 0..11,
                 showUSHolidays : BOOLEAN, showNLHolidays : BOOLEAN]
    /\ result = Rendered(arg, "none")

\* a click on Next, while the start stays within the years of the model
goNext ==
    /\ nextStart.startYear <= MaxStartYear
    /\ arg' = nextStart
    /\ result' = Rendered(nextStart, "next")
    /\ UNCHANGED <<vars, monthVars, settingsVars>>

\* a click on Previous, while the start stays within the years of the model
goPrev ==
    /\ prevStart.startYear >= MinStartYear
    /\ arg' = prevStart
    /\ result' = Rendered(prevStart, "prev")
    /\ UNCHANGED <<vars, monthVars, settingsVars>>

NextPaging ==
    \/ goNext
    \/ goPrev

SpecPaging == InitPaging /\ [][NextPaging]_allVars

\* renderGrid: the day cells of a month, in the order they are appended to
\* the grid after the weekday headers Mon .. Sun. A cell is the number of its
\* day, or outside
outside == 0

\* a week that starts on Sunday
leadingSundayFirst(year, monthIndex) == getDay(year, monthIndex + 1, 1)

\* const leading = (first.getDay() + 6) % 7
leading(year, monthIndex) == (getDay(year, monthIndex + 1, 1) + 6) % 7

\* a padding of 7 - filled % 7 cells, without the || 7
totalCellsPaddedAlways(year, monthIndex) ==
    LET filled == leading(year, monthIndex) + DaysIn(year, monthIndex + 1)
    IN  filled + (7 - (filled % 7))

totalCells(year, monthIndex) ==
    LET filled == leading(year, monthIndex) + DaysIn(year, monthIndex + 1)
    IN  filled + (7 - (IF filled % 7 # 0 THEN filled % 7 ELSE 7))

\* the loop over i from 0 to totalCells - 1
dayCells(year, monthIndex) ==
    [c \in 1..totalCells(year, monthIndex) |->
        LET i == c - 1
            dayNum == i - leading(year, monthIndex) + 1
        IN  IF i < leading(year, monthIndex) \/ dayNum > DaysIn(year, monthIndex + 1)
            THEN outside ELSE dayNum]

InitGrid ==
    /\ SectionInit /\ MonthsInit
    /\ arg \in [year : MinWeekdayYear..MaxWeekdayYear, monthIndex : 0..11]
    /\ result = NoValue

ApplyGrid ==
    /\ result = NoValue
    /\ result' = [kind |-> "grid", cells |-> dayCells(arg.year, arg.monthIndex)]
    /\ UNCHANGED <<arg, vars, monthVars, settingsVars>>

NextGrid ==
    \/ ApplyGrid

SpecGrid == InitGrid /\ [][NextGrid]_allVars

(***************************************************************************)
(* The iCalendar parsers of src/lib/github.js and of the head of           *)
(* src/unnamed/part_000.  A text is its lines after unfolding; a line is   *)
(* BEGIN:VEVENT, END:VEVENT, a property with its value, or a line without  *)
(* a colon.                                                                *)
(***************************************************************************)
BeginLine == [kind |-> "BEGIN:VEVENT", name |-> "", value |-> ""]
EndLine == [kind |-> "END:VEVENT", name |-> "", value |-> ""]
NoColon == [kind |-> "nocolon", name |-> "X-WR-CALNAME", value |-> ""]
Prop(name, value) == [kind |-> "prop", name |-> name, value |-> value]

\* the values of DTSTART and DTEND are a date (20240704), a date with a time
\* (20240704T093000), eight digits that name no day (20241345) and a word
\* (tomorrow); /^\d{8}$/ and /^\d{8}T\d{6}Z?$/
IsDate(v) == v \in {"20240704", "20241345"}
IsDateTime(v) == v = "20240704T093000"

\* Date objects: one of a day and a time of the local zone, the Invalid Date
DateObject(local) == [kind |-> "date", local |-> local]
InvalidDate == [kind |-> "invalid", local |-> AllDay(NoDate)]
\* null
NoDateObject == [kind |-> "null", local |-> AllDay(NoDate)]

\* new Date(y, m - 1, d, hh, mm, ss) and new Date('YYYY-MM-DDTHH:mm:ss') for a
\* day that exists
LocalOf(v) ==
    IF v = "20240704T093000" THEN Local(Date(ThisMonth, 4), 9, 30)
    ELSE Local(Date(ThisMonth, 4), 0, 0)

\* parseICalDate of src/lib/github.js: the ISO string of a day that does not
\* exist, and any other text Date cannot read, give the Invalid Date
parseICalDate(v) ==
    IF IsDateTime(v) \/ IsDate(v)
    THEN IF v = "20241345" THEN InvalidDate ELSE DateObject(LocalOf(v))
    ELSE InvalidDate

\* parseDate of src/unnamed/part_000: null unless the pattern matches; the
\* Date constructor carries month 13 and day 45 over into the next year
parseDate(v) ==
    IF v = "" THEN NoDateObject
    ELSE IF IsDateTime(v) \/ IsDate(v)
    THEN IF v = "20241345" THEN DateObject(Local(Date("2025-02", 14), 0, 0))
         ELSE DateObject(LocalOf(v))
    ELSE NoDateObject

\* start.toISOString().slice(0, 10): the date in UTC of a Date object, in a
\* zone ahead of UTC by less than a day
toISOStringDate(d, offset) ==
    IF d.hh * 60 + d.mm < offset THEN Date(d.date.ym, d.date.day - 1) ELSE d.date

\* the properties of a VEVENT block being read
Block(summary, dtstart, dtend) == [summary |-> summary, dtstart |-> dtstart, dtend |-> dtend]
EmptyBlock == Block("", "", "")

\* the state of a parser between two lines: current is null (open FALSE) or
\* the block being read
Parser(open, cur, evts, threw) == [open |-> open, cur |-> cur, events |-> evts, threw |-> threw]

\* cur[key] = value.trim(), for the keys the parsers read
SetProp(cur, name, value) ==
    CASE name = "SUMMARY" -> [cur EXCEPT !.summary = value]
      [] name = "DTSTART" -> [cur EXCEPT !.dtstart = value]
      [] name = "DTEND"   -> [cur EXCEPT !.dtend = value]
      [] OTHER            -> cur

\* src/lib/github.js, END:VEVENT with a block open: start.toISOString()
\* throws a RangeError on the Invalid Date; end.toTimeString() gives
\* 'Invalid Date'
FinalizeLib(p) ==
    LET start == IF p.cur.dtstart # "" THEN parseICalDate(p.cur.dtstart) ELSE NoDateObject
        end == IF p.cur.dtend # "" THEN parseICalDate(p.cur.dtend) ELSE NoDateObject
        startTime == formatTimeHHMM(start.local)
    IN  IF start.kind = "null" THEN Parser(FALSE, EmptyBlock, p.events, FALSE)
        ELSE IF start.kind = "invalid" THEN Parser(FALSE, EmptyBlock, << >>, TRUE)
        ELSE Parser(FALSE, EmptyBlock,
                    Append(p.events,
                           [title |-> IF p.cur.summary # "" THEN p.cur.summary ELSE "Untitled",
                            date |-> toISOStringDate(start.local, UtcOffset),
                            startTime |-> startTime,
                            endTime |-> CASE end.kind = "null" -> startTime
                                          [] end.kind = "invalid" -> "Inval"
                                          [] OTHER -> formatTimeHHMM(end.local)]),
                    FALSE)

\* one turn of the loop over the lines in parseICS of src/lib/github.js
StepLib(p, line) ==
    IF p.threw THEN p
    ELSE IF line.kind = "BEGIN:VEVENT" THEN Parser(TRUE, EmptyBlock, p.events, FALSE)
    ELSE IF line.kind = "END:VEVENT"
    THEN IF p.open THEN FinalizeLib(p) ELSE Parser(FALSE, EmptyBlock, p.events, FALSE)
    ELSE IF ~p.open \/ line.kind = "nocolon" THEN p
    ELSE [p EXCEPT !.cur = SetProp(p.cur, line.name, line.value)]

\* one turn of the loop in parseICS of src/unnamed/part_000: END:VEVENT does
\* not ask whether a block is open, but a block that is not holds nothing
StepPart000(p, line) ==
    IF line.kind = "BEGIN:VEVENT" THEN Parser(TRUE, EmptyBlock, p.events, FALSE)
    ELSE IF line.kind = "END:VEVENT"
    THEN Parser(FALSE, EmptyBlock,
                IF p.cur.summary # "" \/ p.cur.dtstart # ""
                THEN Append(p.events, [summary |-> p.cur.summary,
                                       start |-> parseDate(p.cur.dtstart),
                                       end |-> parseDate(p.cur.dtend)])
                ELSE p.events,
                FALSE)
    ELSE IF p.open THEN [p EXCEPT !.cur = SetProp(p.cur, line.name, line.value)]
    ELSE p

RECURSIVE Lines(_, _, _)
Lines(parser, p, text) ==
    IF text = << >> THEN p
    ELSE Lines(parser,
               IF parser = "lib" THEN StepLib(p, Head(text)) ELSE StepPart000(p, Head(text)),
               Tail(text))

\* a parseICS that emits the block left open at the end of the text
parseICSFlushing(parser, text) ==
    LET p == Lines(parser, Parser(FALSE, EmptyBlock, << >>, FALSE), text)
        q == IF p.open /\ ~p.threw
             THEN (IF parser = "lib" THEN StepLib(p, EndLine) ELSE StepPart000(p, EndLine))
             ELSE p
    IN  [threw |-> q.threw, events |-> q.events]

\* parseICS(text) of either file: it throws, or returns its events
parseICS(parser, text) ==
    LET p == Lines(parser, Parser(FALSE, EmptyBlock, << >>, FALSE), text)
    IN  [threw |-> p.threw, events |-> p.events]

\* the lines of the texts, and the texts of up to MaxLines lines
MaxLines == 4
LineKinds ==
    {BeginLine, EndLine, NoColon, Prop("SUMMARY", "Party"), Prop("DTSTART", "20240704T093000"),
     Prop("DTSTART", "20241345"), Prop("DTSTART", "tomorrow"), Prop("DTEND", "tomorrow")}
Texts == UNION {[1..n -> LineKinds] : n \in 0..MaxLines}
Parsers == {"lib", "part_000"}

InitICS ==
    /\ SectionInit /\ MonthsInit
    /\ arg \in [parser : Parsers, text : Texts]
    /\ result = NoValue

ApplyICS ==
    /\ result = NoValue
    /\ result' = [kind |-> "ics", parsed |-> parseICS(arg.parser, arg.text)]
    /\ UNCHANGED <<arg, vars, monthVars, settingsVars>>

NextICS ==
    \/ ApplyICS

SpecICS == InitICS /\ [][NextICS]_allVars

(***************************************************************************)
(* The text of a feed, character by character: unfolding and unescaping.   *)
(***************************************************************************)
\* the characters that matter: carriage return, line feed, space, tab,
\* backslash, and the characters of a value
CR == "CR"
LF == "LF"
SP == "SP"
TAB == "TAB"
BS == "BS"

\* text.replace(pattern, by) for a pattern that is a sequence of character
\* classes: every match, from the left, when all is TRUE (the g flag),
\* otherwise the first one only
RECURSIVE replace(_, _, _, _)
replace(text, pattern, by, all) ==
    IF Len(text) < Len(pattern) THEN text
    ELSE IF \A i \in 1..Len(pattern) : text[i] \in pattern[i]
         THEN by \o (IF all THEN replace(SubSeq(text, Len(pattern) + 1, Len(text)), pattern, by, all)
                     ELSE SubSeq(text, Len(pattern) + 1, Len(text)))
         ELSE << Head(text) >> \o replace(Tail(text), pattern, by, all)

\* text.split(/\r?\n/): the lines between the line breaks CRLF and LF
RECURSIVE split(_, _)
split(text, line) ==
    IF text = << >> THEN << line >>
    ELSE IF Head(text) = LF THEN << line >> \o split(Tail(text), << >>)
    ELSE IF Head(text) = CR /\ Len(text) >= 2 /\ text[2] = LF
         THEN << line >> \o split(SubSeq(text, 3, Len(text)), << >>)
    ELSE split(Tail(text), Append(line, Head(text)))

\* unfold(text) of src/unnamed/part_000: CRLF before a space or a tab is
\* removed with it, then LF before a space or a tab
unfold(text) ==
    replace(replace(text, <<{CR}, {LF}, {SP, TAB}>>, << >>, TRUE),
            <<{LF}, {SP, TAB}>>, << >>, TRUE)

\* the loop of parseICS of src/lib/github.js over rawLines: a line that
\* starts with a space, when there is a line before it, is added to that line
\* without its first character
RECURSIVE unfoldLoop(_, _)
unfoldLoop(rawLines, lines) ==
    IF rawLines = << >> THEN lines
    ELSE LET line == Head(rawLines)
         IN  IF line # << >> /\ Head(line) = SP /\ lines # << >>
             THEN unfoldLoop(Tail(rawLines),
                             [lines EXCEPT ![Len(lines)] = @ \o Tail(line)])
             ELSE unfoldLoop(Tail(rawLines), Append(lines, line))

\* the logical lines of a text: unfold(text).split(/\r?\n/) in
\* src/unnamed/part_000; in src/lib/github.js the line endings CRLF and CR
\* become LF, the text is split at LF and the loop joins the continuations
logicalLines(parser, text) ==
    IF parser = "part_000" THEN split(unfold(text), << >>)
    ELSE unfoldLoop(split(replace(replace(text, <<{CR}, {LF}>>, <<LF>>, TRUE), <<{CR}>>, <<LF>>, TRUE),
                          << >>), << >>)

\* a value folded once: a line break and one space or tab after its first
\* at characters
MaxValue == 3
Values == UNION {[1..n -> {"a", SP, TAB}] : n \in 1..MaxValue}
Breaks == {<<CR, LF>>, <<LF>>}
Fold(value, at, break, ws) ==
    SubSeq(value, 1, at) \o break \o << ws >> \o SubSeq(value, at + 1, Len(value))

InitUnfold ==
    /\ SectionInit /\ MonthsInit
    /\ arg \in {a \in [parser : Parsers, value : Values, at : 1..MaxValue,
                        break : Breaks, ws : {SP, TAB}] : a.at <= Len(a.value)}
    /\ result = NoValue

ApplyUnfold ==
    /\ result = NoValue
    /\ result' = [kind |-> "lines",
                   lines |-> logicalLines(arg.parser, Fold(arg.value, arg.at, arg.break, arg.ws))]
    /\ UNCHANGED <<arg, vars, monthVars, settingsVars>>

NextUnfold ==
    \/ ApplyUnfold

SpecUnfold == InitUnfold /\ [][NextUnfold]_allVars

\* value.trim(): the white space at both ends goes
WhiteSpace == {SP, TAB, CR, LF}
RECURSIVE trimStart(_)
trimStart(value) ==
    IF value # << >> /\ Head(value) \in WhiteSpace THEN trimStart(Tail(value)) ELSE value
RECURSIVE trimEnd(_)
trimEnd(value) ==
    IF value # << >> /\ value[Len(value)] \in WhiteSpace
    THEN trimEnd(SubSeq(value, 1, Len(value) - 1)) ELSE value
trim(value) == trimEnd(trimStart(value))

\* what the parser stores for the value of a SUMMARY or DESCRIPTION line:
\* src/unnamed/part_000 replaces the first backslash-comma, the first
\* backslash-semicolon (no g flag) and every backslash-n; src/lib/github.js
\* stores value.trim()
unescape(parser, value) ==
    IF parser = "part_000"
    THEN replace(replace(replace(value, <<{BS}, {","}>>, << "," >>, FALSE),
                         <<{BS}, {";"}>>, << ";" >>, FALSE),
                 <<{BS}, {"n"}>>, << LF >>, TRUE)
    ELSE trim(value)

\* the text of a value as a feed writes it: a backslash before every comma
\* and semicolon, backslash n for every line break
MaxPlain == 3
Plains == UNION {[1..n -> {"a", ",", ";", LF}] : n \in 1..MaxPlain}
RECURSIVE Escape(_)
Escape(plain) ==
    IF plain = << >> THEN << >>
    ELSE (IF Head(plain) = LF THEN <<BS, "n">>
          ELSE IF Head(plain) \in {",", ";"} THEN <<BS, Head(plain)>>
          ELSE << Head(plain) >>) \o Escape(Tail(plain))

InitUnescape ==
    /\ SectionInit /\ MonthsInit
    /\ arg \in [parser : Parsers, plain : Plains]
    /\ result = NoValue

ApplyUnescape ==
    /\ result = NoValue
    /\ result' = [kind |-> "value", value |-> unescape(arg.parser, Escape(arg.plain))]
    /\ UNCHANGED <<arg, vars, monthVars, settingsVars>>

NextUnescape ==
    \/ ApplyUnescape

SpecUnescape == InitUnescape /\ [][NextUnescape]_allVars

(***************************************************************************)
(* What the grid is to show.                                               *)
(***************************************************************************)
\* the cached month events of the sources keys, in their order
RECURSIVE OverlaysOf(_)
OverlaysOf(keys) ==
    IF keys = << >> THEN << >>
    ELSE (IF Cached(Head(keys)) THEN OverlayCache[Head(keys)] ELSE << >>)
           \o OverlaysOf(Tail(keys))

\* the persisted events followed by the events of every pressed overlay
ExpectedGrid == renderGrid(events \o OverlaysOf(ActiveKeys))

\* every pressed toggle has a URL, and the events of its feed are at hand
AllPressedCached == \A k \in KeySet : pressed[k] => Url(k) # "" /\ Cached(k)
\* the events of the feed of every pressed toggle that has a URL are at hand
PressedAvailable == \A k \in KeySet : pressed[k] /\ Url(k) # "" => Cached(k)

Range(evts) == {evts[i] : i \in 1..Len(evts)}

\* the times of the model, in lexicographic order
Clock == <<"00:00", "09:00", "10:00", "12:00", "13:00">>
Earlier(a, b) == \E i, j \in 1..Len(Clock) : Clock[i] = a /\ Clock[j] = b /\ i < j

\* the putFile calls that have not settled
Writing == {t \in Waiting : t.stage \in {"put", "get", "retry"}}

(***************************************************************************)
(* The claims.                                                             *)
(***************************************************************************)
\* C1: when a toggle click has rendered the grid (at once, or after its fetch
\* succeeded with the toggle still pressed), and every pressed toggle has a URL
\* and fetched events, the grid shows the persisted events followed by the
\* events of every pressed overlay and of no other.
ToggleShowsEveryPressedOverlay ==
    [][ (/\ \/ \E k \in KeySet : toggleOverlay(k) /\ UNCHANGED tasks
            \/ \E t \in Waiting : \E direct, proxy \in SessionResponses :
                   /\ t.kind = "toggle"
                   /\ pressed[t.key]
                   /\ ~fetchICS(direct, proxy).threw
                   /\ FetchSettles(t, direct, proxy)
         /\ AllPressedCached')
        => grid' = ExpectedGrid' ]_vars

\* C2: every event in the month file data/2024-07.json has a date in 2024-07.
MonthFileOwnsItsEvents ==
    \A e \in Range(remote.content) : e.date.ym = ThisMonth

\* C3: a retried PUT that the store accepts leaves the event of the other
\* client in the month file.
RetryKeepsOtherClientsEvent ==
    [][ (\E t \in Waiting : RetrySettles(t) /\ remote' # remote)
        => (ExternalEvent \in Range(remote.content)
              => ExternalEvent \in Range(remote'.content)) ]_vars

\* C4: no putFile call sends more than two PUT requests, and a call whose
\* first PUT met a version conflict fetched the token again, once, and resolved
\* only through a second PUT.
ConflictRetriedOnce ==
    /\ lastPut.writes <= 2
    /\ lastPut.conflict => lastPut.reads = 1 /\ (lastPut.ok => lastPut.writes = 2)

\* C5: at most one putFile call for the month is waiting on the store.
OneWriteAtATime ==
    BagCardinality([t \in Writing |-> tasks[t]]) <= 1

\* C6: once every handler has settled, the grid shows no event of an overlay
\* whose toggle is not pressed.
SettledGridShowsPressedOnly ==
    tasks = EmptyBag => \A e \in Range(grid) : e.ov => pressed[e.id.origin]

\* C7: no event that came from an overlay feed is in the month file or in the
\* persisted list of the section.
NoOverlayEventPersisted ==
    \A e \in Range(remote.content) \cup Range(events) : ~IsOverlayId(e.id)

\* C8: no event with an empty title, without a date, or with both times and
\* the end before the start is in a list being written, in the month file or in
\* the persisted list of the section.
InvalidEventNeverWritten ==
    \A e \in Range(remote.content) \cup Range(events)
                \cup UNION {Range(t.base) : t \in Writing} :
        /\ Valid(e)
        /\ ~(e.startTime # "" /\ e.endTime # "" /\ Earlier(e.endTime, e.startTime))

\* C9: the event list and the token of the section change only in a step in
\* which the store accepts a write, and then to the list written and its token;
\* a write that fails leaves both as they were.
SectionChangesOnlyOnAcceptedWrite ==
    [][ /\ (events' # events \/ sha' # sha)
            => remote' # remote /\ events' = remote'.content /\ sha' = remote'.sha
        /\ remote' = remote => UNCHANGED <<events, sha>> ]_vars

\* C9, its case: a save or delete has failed, and the section holds the list
\* and the token it was loaded with.
WriteFailed ==
    /\ status \in {"Save failed.", "Delete failed."}
    /\ lastPut.writes >= 1 /\ ~lastPut.ok
    /\ events = InitialEvents /\ sha = 1

\* C10: when the write of onSaveEvent or onDeleteEvent is accepted and the
\* handler renders, the events of every pressed overlay being at hand, the grid
\* shows the new persisted list followed by the events of every pressed overlay.
WriteRendersPressedOverlays ==
    [][ \A t \in Waiting :
          (/\ t.stage \in {"put", "retry"}
           /\ remote' # remote
           /\ tasks' = Finish(t)
           /\ PressedAvailable)
          => grid' = ExpectedGrid' ]_vars

\* C11: for every month, at most one GH.loadMonth request is in flight and at
\* most one was ever sent, whatever renderInitial and the sentinels call.
OneLoadPerMonth ==
    \A k \in Months : CopiesIn(k, loading) <= 1 /\ requests[k] <= 1

\* C11, its case: the current month is rendered and the loads the top and the
\* bottom sentinel (or renderInitial) asked for are both in flight.
TwoLoadsInFlight ==
    /\ monthNodes # << >>
    /\ BagCardinality(loading) = 2
    /\ \A k \in BagToSet(loading) : k \in loadedKeys

\* C12: filterEventsToMonth keeps an event exactly when its start, on the
\* wall clock of the local zone, lies in the section's month.
FilterKeepsLocalMonth ==
    result # NoValue => (result.value # << >> <=> arg.start.date.ym = ThisMonth)

\* C13: every event filterEventsToMonth returns to getOverlay has a date in
\* the section's month.
OverlayDatesInMonth ==
    result # NoValue => \A e \in Range(result.value) : e.date.ym = ThisMonth

\* C14: the events cached for a source stay cached and stay the same; a toggle
\* click for a cached source sends no request and renders the cached events;
\* no handler starts to wait for the feed of a cached source.
CacheHitSendsNoRequest ==
    [][ /\ \A k \in DOMAIN OverlayCache :
              k \in DOMAIN OverlayCache' /\ OverlayCache'[k] = OverlayCache[k]
        /\ \A k \in DOMAIN OverlayCache :
              toggleOverlay(k) =>
                 /\ tasks' = tasks
                 /\ ~pressed[k] /\ Url(k) # "" => grid' = renderGrid(events \o OverlayCache[k])
        /\ \A t \in BagToSet(tasks') :
              t.stage = "fetch" /\ CopiesIn(t, tasks') > CopiesIn(t, tasks)
                 => t.key \notin DOMAIN OverlayCache' ]_vars

\* C14, its case: the events of a source are cached, its toggle is pressed and
\* the grid shows them, with no request pending.
CachedOverlayShown ==
    \E k \in DOMAIN OverlayCache :
        /\ pressed[k] /\ tasks = EmptyBag /\ OverlayCache[k] # << >>
        /\ grid = renderGrid(events \o OverlayCache[k])

\* C15: a getOverlay call that misses the cache sends one request when the
\* direct request is answered with the feed, two when the direct request fails
\* (status not ok, or no answer), and never more than two.
MissRetriesThroughProxyOnce ==
    result # NoValue /\ arg.url # "" /\ ~arg.cached =>
        /\ result.got.requests <= 2
        /\ Parses(arg.direct) => result.got.requests = 1
        /\ arg.direct \in {"status", "network"} => result.got.requests = 2

\* C16: getOverlay never rejects; it resolves to the month's events when a
\* request was answered with a feed that parses to an array, or from the cache,
\* and to the empty sequence otherwise; and the grid shows every persisted
\* event of the month whatever became of the overlay.
GetOverlayNeverRejects ==
    result # NoValue =>
        /\ ~result.got.rejected
        /\ result.got.value \in {<< >>, filterEventsToMonth("us", Feed("us"), UtcOffset)}
        /\ (/\ ~arg.cached
            /\ \/ arg.url = ""
               \/ arg.direct # "feed" /\ (arg.app = "app.js" \/ Parses(arg.direct) \/ arg.proxy # "feed"))
           => result.got.value = << >>
        /\ \A e \in Range(InitialEvents) : e \in Range(result.grid)

\* C16, its case: both requests failed, or the parser threw or returned no
\* array, and getOverlay has resolved to the empty sequence.
OverlayGaveUp ==
    /\ result # NoValue /\ arg.url # "" /\ ~arg.cached
    /\ arg.direct \in {"network", "garbage"} /\ arg.proxy \in {"status", "shape"}
    /\ result.got.value = << >> /\ result.got.requests >= 1

\* the section of month k among nodes
SectionOf(nodes, k) == nodes[CHOOSE i \in 1..Len(nodes) : nodes[i].key = k]
HasSection(nodes, k) == \E i \in 1..Len(nodes) : nodes[i].key = k
IsArrayFile(answer) == answer.kind = "file" /\ answer.content.kind \in {"array", "empty"}
IsJSONFile(answer) == answer.kind = "file" /\ answer.content.kind \in {"array", "empty", "object"}

\* C17: whatever getFile answers, the load of a month settles with the month's
\* section in the page and its grid rendered from the loaded events; the
\* events are the file's array, and empty when there is no file, no answer, an
\* error status or a content that is no JSON array; the sha is null unless a
\* file was read and its content parsed as JSON, and then it is the file's.
LoadNeverFails ==
    [][\A k \in Months : \A answer \in FileAnswers(k) :
          LoadSettles(k, answer) =>
              /\ HasSection(monthNodes', k)
              /\ LET s == SectionOf(monthNodes', k)
                 IN  /\ s.grid = renderGrid(s.events)
                     /\ ~IsArrayFile(answer) => s.events = << >>
                     /\ answer.kind = "file" /\ answer.content.kind = "array"
                            => s.events = answer.content.value
                     /\ s.sha = IF IsJSONFile(answer) THEN answer.sha ELSE 0]_allVars

\* C17 as stated: the sha is null whenever the content is no JSON array.
LoadGivesNullShaWithoutArray ==
    [][\A k \in Months : \A answer \in FileAnswers(k) :
          LoadSettles(k, answer) /\ ~IsArrayFile(answer) =>
              /\ HasSection(monthNodes', k)
              /\ SectionOf(monthNodes', k).events = << >>
              /\ SectionOf(monthNodes', k).sha = 0]_allVars

\* C17, its case: the load of the current month, whose file holds events, has
\* failed, and the month's section is in the page with no events and no sha.
FailedLoadRendered ==
    /\ HasSection(monthNodes, 0)
    /\ SectionOf(monthNodes, 0).events = << >>
    /\ SectionOf(monthNodes, 0).sha = 0
    /\ 0 \notin BagToSet(loading)

\* a putFile call has sent its first PUT in this step
PutSent == \E t \in BagToSet(tasks') : t.stage = "put" /\ ~BagIn(t, tasks)

\* C18: with no token configured, a click on Save or on Delete sends no PUT
\* and announces the status that describes the missing configuration.
NoTokenReportsConfiguration ==
    [][token = "" /\ (onDeleteEvent \/ \E title \in TitleInputs, date \in DateInputs, times \in TimeInputs :
                                          onSaveEvent(title, date, times[1], times[2]))
          => ~PutSent /\ status' = NotConfigured]_allVars

\* the calendar from March to June, counted in days from the last of February
FromMarch(n) ==
    IF n <= 31 THEN MonthDay(3, n)
    ELSE IF n <= 61 THEN MonthDay(4, n - 31)
    ELSE IF n <= 92 THEN MonthDay(5, n - 61)
    ELSE MonthDay(6, n - 92)
MarchDay(date) == IF date.month = 3 THEN date.day ELSE 31 + date.day

\* the nine holidays, each with the key of its date, Easter being at e
NineHolidays(e) ==
    { <<MonthDay(1, 1), "Nieuwjaarsdag">>, <<MonthDay(4, 27), "Koningsdag">>,
      <<MonthDay(5, 5), "Bevrijdingsdag">>, <<MonthDay(12, 25), "Eerste Kerstdag">>,
      <<MonthDay(12, 26), "Tweede Kerstdag">>,
      <<FromMarch(e - 2), "Goede Vrijdag">>, <<FromMarch(e + 1), "Tweede Paasdag">>,
      <<FromMarch(e + 39), "Hemelvaart">>, <<FromMarch(e + 50), "Tweede Pinksterdag">> }

\* C19: for every year from 1900 to 2400, each of the nine holidays is found in
\* getNLHolidays(year) under the key of its calendar date.
NLHolidaysHoldAllNine ==
    result # NoValue =>
        \A p \in NineHolidays(MarchDay(result.easter)) :
            p[1] \in DOMAIN result.holidays /\ result.holidays[p[1]] = p[2]

\* C20: for every year from 1950 to 2100, getEasterDate gives a day of that
\* year from March 22 to April 25.
EasterBetweenMarch22AndApril25 ==
    result # NoValue /\ arg.year \in 1950..2100 =>
        /\ result.easter.year = arg.year
        /\ \/ result.easter.month = 3 /\ result.easter.day \in 22..31
           \/ result.easter.month = 4 /\ result.easter.day \in 1..25

\* C20, its case: the latest Easter of the range, that of 2038, which the
\* correction m moves within the range in other years (1954, 1981, 2049, 2076).
LatestEaster ==
    /\ result # NoValue /\ arg.year = 2038
    /\ result.easter = JSDate(2038, 4, 25)

\* the Gregorian computus by golden number and epact (Lilius and Clavius, as
\* in Knuth, The Art of Computer Programming, 1.3.2, exercise 14)
Computus(year) ==
    LET G == (year % 19) + 1
        C == year \div 100 + 1
        X == (3 * C) \div 4 - 12
        Z == (8 * C + 5) \div 25 - 5
        D == (5 * year) \div 4 - X - 10
        E0 == (11 * G + 20 + Z - X) % 30
        E == IF (E0 = 25 /\ G > 11) \/ E0 = 24 THEN E0 + 1 ELSE E0
        N0 == 44 - E
        N1 == IF N0 < 21 THEN N0 + 30 ELSE N0
        N == N1 + 7 - ((D + N1) % 7)
    IN  IF N > 31 THEN JSDate(year, 4, N - 31) ELSE JSDate(year, 3, N)

\* C21: for every year from 1900 to 2400, getEasterDate(year) is the Easter
\* Sunday of the Gregorian computus: a day of March or April that exists and
\* is a Sunday.
EasterIsComputusSunday ==
    result # NoValue =>
        /\ result.easter = Computus(arg.year)
        /\ result.easter.month \in {3, 4}
        /\ result.easter.day \in 1..DaysIn(arg.year, result.easter.month)
        /\ getDay(arg.year, result.easter.month, result.easter.day) = 0

\* C21, its case: the earliest Easter there is, that of 2285.
EarliestEaster ==
    /\ result # NoValue /\ arg.year = 2285
    /\ result.easter = JSDate(2285, 3, 22)

\* C22: for n from 1 to 4 getNthWeekdayOfMonth gives a day from 7(n-1)+1 to 7n
\* that falls on the weekday, for n = -1 a day of the last seven of the month
\* that falls on the weekday; the third Monday of January 2024 is the 15th and
\* the last Monday of May 2024 the 27th.
NthWeekdayIsNthOccurrence ==
    result # NoValue /\ arg.n # 0 =>
        /\ getDay(arg.year, arg.monthIndex + 1, result.day) = arg.weekday
        /\ arg.n > 0 => result.day \in (7 * (arg.n - 1) + 1)..(7 * arg.n)
        /\ arg.n = -1 => result.day \in (DaysIn(arg.year, arg.monthIndex + 1) - 6)..DaysIn(arg.year, arg.monthIndex + 1)
        /\ arg = [year |-> 2024, monthIndex |-> 0, weekday |-> 1, n |-> 3] => result.day = 15
        /\ arg = [year |-> 2024, monthIndex |-> 4, weekday |-> 1, n |-> -1] => result.day = 27

\* C22, its case: the last Monday of May 2024.
LastMondayOfMay ==
    /\ result # NoValue
    /\ arg = [year |-> 2024, monthIndex |-> 4, weekday |-> 1, n |-> -1]
    /\ result.day = 27

\* C23: called with n = 0, getNthWeekdayOfMonth does not return a day of the
\* month.
ZerothWeekdayIsNoDay ==
    result # NoValue /\ arg.n = 0 =>
        result.day \notin 1..DaysIn(arg.year, arg.monthIndex + 1)

\* a day from lo to hi of the month that falls on the weekday, as a key
WeekdayKeys(year, month, weekday, lo, hi) ==
    {MonthDay(month, d) : d \in {x \in lo..hi : getDay(year, month, x) = weekday}}

\* C24: getUSHolidays(year) has eleven entries under eleven keys: the five
\* fixed dates, the third Mondays of January and February, the last Monday of
\* May, the first Monday of September, the second Monday of October and the
\* fourth Thursday of November, each with its name.
USHolidaysAreEleven ==
    result # NoValue =>
        LET h == result.us
            y == arg.year
            Named(keys, name) == \E k \in keys : k \in DOMAIN h /\ h[k] = name
        IN  /\ Cardinality(DOMAIN h) = 11
            /\ Cardinality({h[k] : k \in DOMAIN h}) = 11
            /\ Named({MonthDay(1, 1)}, "New Year's Day")
            /\ Named({MonthDay(6, 19)}, "Juneteenth")
            /\ Named({MonthDay(7, 4)}, "Independence Day")
            /\ Named({MonthDay(11, 11)}, "Veterans Day")
            /\ Named({MonthDay(12, 25)}, "Christmas Day")
            /\ Named(WeekdayKeys(y, 1, 1, 15, 21), "Martin Luther King Jr. Day")
            /\ Named(WeekdayKeys(y, 2, 1, 15, 21), "Presidents' Day")
            /\ Named(WeekdayKeys(y, 5, 1, 25, 31), "Memorial Day")
            /\ Named(WeekdayKeys(y, 9, 1, 1, 7), "Labor Day")
            /\ Named(WeekdayKeys(y, 10, 1, 8, 14), "Columbus Day")
            /\ Named(WeekdayKeys(y, 11, 4, 22, 28), "Thanksgiving")

\* C24, its case: the map of 2021, a year whose May has five Mondays.
USHolidaysOf2021 ==
    /\ result # NoValue /\ arg.year = 2021
    /\ Cardinality(DOMAIN result.us) = 11
    /\ result.us[MonthDay(5, 31)] = "Memorial Day"
    /\ result.us[MonthDay(11, 25)] = "Thanksgiving"

\* the name of key in the map of an enabled country, or null
Marked(show, holidays, key) == IF show /\ key \in DOMAIN holidays THEN holidays[key] ELSE null

\* C25: for every day generateMonths makes, with the toggles in every
\* combination: the US name, ' / ' and the NL name when both enabled maps mark
\* the day, the one name when one enabled map marks it, null otherwise.
MergeKeepsBothNames ==
    result # NoValue =>
        \A i \in DOMAIN result.months :
            LET m == result.months[i]
                us == getUSHolidays(m.year)
                nl == getNLHolidays(m.year)
            IN  \A d \in DOMAIN m.days :
                    LET key == MonthDay(m.monthIndex + 1, d)
                        u == Marked(arg.showUSHolidays, us, key)
                        n == Marked(arg.showNLHolidays, nl, key)
                        name == m.days[d].holidayName
                    IN  /\ u # null /\ n # null => name = u \o " / " \o n
                        /\ u # null /\ n = null => name = u
                        /\ u = null /\ n # null => name = n
                        /\ u = null /\ n = null => name = null

\* C25, its case: both toggles are on and January 1 and December 25 are
\* marked by both maps.
BothNamesShown ==
    /\ result # NoValue /\ arg.showUSHolidays /\ arg.showNLHolidays
    /\ arg.startMonth = 0
    /\ result.months[1].days[1].holidayName = "New Year's Day / Nieuwjaarsdag"
    /\ result.months[12].days[25].holidayName = "Christmas Day / Eerste Kerstdag"

\* the cells before the cell of day 1
BeforeFirst(cells) == {c \in DOMAIN cells : \A b \in 1..c : cells[b] # 1}

\* C26: the cells before day 1 are all blank and are as many as the days from
\* Monday to the weekday of the 1st: none for a Monday, 2 for a Wednesday, 6
\* for a Sunday.
LeadingBlanksFromMonday ==
    result # NoValue =>
        LET first == getDay(arg.year, arg.monthIndex + 1, 1)
            blanks == BeforeFirst(result.cells)
        IN  /\ \E c \in DOMAIN result.cells : result.cells[c] = 1
            /\ \A c \in blanks : result.cells[c] = outside
            /\ (1 + Cardinality(blanks)) % 7 = first
            /\ Cardinality(blanks) \in 0..6
            /\ first = 1 => Cardinality(blanks) = 0
            /\ first = 3 => Cardinality(blanks) = 2
            /\ first = 0 => Cardinality(blanks) = 6

\* C26, its case: May 2024, whose 1st is a Wednesday.
WednesdayFirst ==
    /\ result # NoValue /\ arg = [year |-> 2024, monthIndex |-> 4]
    /\ SubSeq(result.cells, 1, 3) = <<outside, outside, 1>>

\* C27: parseICS never throws, whatever the lines, and a DTSTART or DTEND
\* value that is no date is left out of the event: no event holds an Invalid
\* Date or a text made from one.
ParseNeverThrows ==
    result # NoValue =>
        /\ ~result.parsed.threw
        /\ \A i \in DOMAIN result.parsed.events :
              LET e == result.parsed.events[i]
              IN  IF arg.parser = "lib" THEN e.endTime # "Inval"
                  ELSE e.start.kind # "invalid" /\ e.end.kind # "invalid"

\* the END:VEVENT lines of a text, and those that close an open block
EndLines(text) == {i \in DOMAIN text : text[i] = EndLine}
Closing(text) ==
    {i \in EndLines(text) :
        \E b \in 1..(i - 1) : text[b] = BeginLine /\ \A j \in (b + 1)..(i - 1) : text[j] # EndLine}

\* C28: parseICS emits at most one event for each END:VEVENT line that closes
\* a block opened by BEGIN:VEVENT, and none for a block that is not closed.
EventsOnlyFromClosedBlocks ==
    result # NoValue =>
        /\ Len(result.parsed.events) <= Cardinality(Closing(arg.text))
        /\ Len(result.parsed.events) <= Cardinality(EndLines(arg.text))
        /\ EndLines(arg.text) = {} => result.parsed.events = << >>

\* C28, its case: a block with a summary and a start that no END:VEVENT
\* closes, after a block that is closed.
UnterminatedBlockDropped ==
    /\ result # NoValue
    /\ arg.text = <<BeginLine, Prop("SUMMARY", "Party"), EndLine, BeginLine>>
    /\ Len(result.parsed.events) = 1
    /\ ~result.parsed.threw

\* C29: no month later than 24 months after the current month is ever
\* requested, loaded or given a section, whatever the sentinels report; and
\* the top sentinel loads the month before the first section however far
\* back that is.
FutureScrollingBounded ==
    [][/\ \A k \in Months : k > 24 =>
             /\ k \notin loadedKeys'
             /\ requests'[k] = 0
             /\ ~HasSection(monthNodes', k)
       /\ TopSentinel =>
             LET firstKey == IF monthNodes # << >> THEN monthNodes[1].key ELSE 0
             IN  (firstKey - 1) \in loadedKeys' /\ requests'[firstKey - 1] = 1]_allVars

\* C29, its case: the calendar has been scrolled down to the last month, the
\* 24th after the current, and up to a month of the past.
ScrolledToBothEnds ==
    /\ HasSection(monthNodes, 24)
    /\ HasSection(monthNodes, 0 - MaxPast)
    /\ loading = EmptyBag

SectionsFromMergedRepository ==
    merged => \A i \in 1..Len(monthNodes) : origin[monthNodes[i].key] = owner


\* C32: whatever the order of the ensureMonth calls and of the answers to
\* their loads, the keys of monthNodes are strictly ascending, so that no
\* month has two sections
MonthNodesAscending ==
    \A i, j \in 1..Len(monthNodes) : i < j => monthNodes[i].key < monthNodes[j].key

\* the loads were answered in another order than they were requested: the
\* months before and after the current one have their sections while the
\* load of the current month, requested first, is still pending
AnsweredOutOfOrder ==
    /\ Len(monthNodes) >= 2
    /\ \E k \in BagToSet(loading) :
          /\ monthNodes[1].key < k
          /\ k < monthNodes[Len(monthNodes)].key


\* C33: the value of a getOverlay call derives from the feed at the URL passed
\* to that call, or from no feed when the call resolves to []; after the URL
\* of the source has changed, no events cached from the previous URL are
\* returned
OverlayFromUrlOfCall ==
    result.kind = "second" => result.from \in {arg.second, NoUrl}


\* the fetch of the n-th call failed: neither the direct request nor the
\* request through the proxy was answered
FetchFailed(n) == fetchICS(arg.direct[n], arg.proxy[n]).threw

\* C39: a getOverlay call whose fetch fails resolves to [] and leaves the
\* cache without an entry for the source and month, an entry being there
\* exactly when a fetch succeeded; and a later call for the same source and
\* month sends the request again
FailedFetchNotMemoised ==
    /\ result.kind = "first" /\ arg.first # NoUrl =>
          /\ result.got.requests >= 1
          /\ ("us" \in DOMAIN result.cache) = ~FetchFailed(1)
          /\ FetchFailed(1) => result.got.value = << >>
    /\ result.kind = "second" /\ arg.first # NoUrl /\ arg.second # NoUrl /\ FetchFailed(1) =>
          /\ result.before = << >>
          /\ result.got.requests >= 1
          /\ ("us" \in DOMAIN result.cache) = ~FetchFailed(2)

\* the first call failed, the second, for the same URL, fetched the feed
FetchedAgainAfterFailure ==
    /\ result.kind = "second" /\ arg.first # NoUrl /\ arg.second = arg.first
    /\ FetchFailed(1) /\ ~FetchFailed(2)
    /\ result.got.requests >= 1
    /\ result.got.value = filterEventsToMonth("us", Feed("us"), UtcOffset)
    /\ result.got.value # << >>


\* C34: an ensureMonth call resolves only when the section of its month is in
\* monthNodes, also when the load of the month was already pending at the
\* call: every call renderInitial has finished awaiting has its section
EnsureMonthAwaitsPendingLoad ==
    \A i \in 1..Len(InitialTargets) :
        initial > i => HasSection(monthNodes, InitialTargets[i])


\* C35: a value folded by a line break, CRLF or bare LF, and one space or tab
\* is recovered by unfolding as one logical line with no character lost or
\* added
UnfoldRecoversValue ==
    result # NoValue => result.lines = << arg.value >>


\* C36: the value stored for a SUMMARY or DESCRIPTION line has every escaped
\* comma, every escaped semicolon and every backslash n of the feed's text
\* unescaped, however many there are: it is the value the feed escaped
UnescapeRecoversValue ==
    result # NoValue => result.value = arg.plain


\* C37: the cells of a month are a multiple of 7; they are the leading
\* blanks, then the days 1..daysInMonth, one cell each and in increasing
\* order, then between 0 and 6 trailing blanks
GridIsWholeWeeks ==
    result # NoValue =>
        LET cells == result.cells
            blanks == leading(arg.year, arg.monthIndex)
            days == DaysIn(arg.year, arg.monthIndex + 1)
            trailing == Len(cells) - blanks - days
        IN  /\ Len(cells) % 7 = 0
            /\ trailing \in 0..6
            /\ \A c \in 1..Len(cells) :
                  cells[c] = IF c > blanks /\ c <= blanks + days THEN c - blanks ELSE outside
            /\ \A d \in 1..days : Cardinality({c \in 1..Len(cells) : cells[c] = d}) = 1

\* February 2021 begins on a Monday and has 28 days: four whole weeks with
\* no blank before and none after
FourWeekFebruary ==
    /\ result # NoValue /\ arg.year = 2021 /\ arg.monthIndex = 1
    /\ Len(result.cells) = 28
    /\ result.cells[1] = 1 /\ result.cells[28] = 28


\* C38: when a save or delete is accepted the section stores the token the
\* store answered with; the next save or delete sends the stored token; and
\* a PUT whose token is still that of the file, no other client having
\* written in between, meets no conflict
StoredTokenIsAcceptedNext ==
    [][ /\ (remote' # remote /\ tasks' # tasks) => sha' = remote'.sha
        /\ \A t \in BagToSet(tasks') :
              t.stage = "put" /\ ~BagIn(t, tasks) => t.sha = sha
        /\ \A t \in Waiting :
              t.stage = "put" /\ t.sha = remote.sha /\ ~BagIn(t, tasks')
                 => /\ \A u \in BagToSet(tasks') : u.stage # "get" \/ BagIn(u, tasks)
                    /\ lastPut' # lastPut => ~lastPut'.conflict ]_vars

\* two writes of this session were accepted one after the other, the second
\* with the token the first was answered with and without a conflict
SecondSaveAccepted ==
    /\ lastPut.ok /\ ~lastPut.conflict /\ lastPut.writes = 1
    /\ remote.sha = 3 /\ sha = 3
    /\ Id("other", 1) \notin IdsOf(remote.content)
    /\ events = remote.content


\* the months since year 0 of a start, and of a generated month
StartIndex(start) == start.startYear * 12 + start.startMonth
MonthIndexOf(m) == m.year * 12 + m.monthIndex

\* C40: the start month stays in 0..11, Next moves the start forward by
\* exactly two months and Previous back by exactly two, so that Previous
\* after Next restores the start, and the months generated are consecutive
\* calendar months beginning at the start
PagingMovesTwoMonths ==
    /\ [](/\ arg.startMonth \in 0..11
          /\ Len(result.months) = MonthCount
          /\ \A i \in 1..MonthCount :
                /\ result.months[i].monthIndex \in 0..11
                /\ MonthIndexOf(result.months[i]) = StartIndex(arg) + i - 1)
    /\ [][ /\ result'.click = "next" => StartIndex(arg') = StartIndex(arg) + 2
           /\ result'.click = "prev" => StartIndex(arg') = StartIndex(arg) - 2 ]_pureVars

\* Previous was clicked in January: the page starts in November of the year
\* before, and its third month is January again
PreviousFromJanuary ==
    /\ result.click = "prev" /\ arg.startMonth = 10 /\ arg.startYear = 2019
    /\ result.months[1].year = 2019 /\ result.months[1].monthIndex = 10
    /\ result.months[3].year = 2020 /\ result.months[3].monthIndex = 0


=============================================================================
